---- MODULE Spec2Model ----
(***************************************************************************)
(* Permission checker, module registry, ribbon navigation and super-admin  *)
(* tenant management of the TVET ERP frontend.                             *)
(*                                                                         *)
(*   permission-checker  src/unnamed/part_001, lines 251-390               *)
(*   module-registry     src/unnamed/part_002                              *)
(*   usePermission       src/src/hooks/usePermission.ts                    *)
(*   useCanAccess        src/unnamed/part_009                              *)
(*   RibbonNavigation    src/src/components/navigation/ribbon-navigation.tsx*)
(*   super-admin API     src/unnamed/part_001, lines 1-248                 *)
(*   mock tenant store   src/src/lib/mock-data/tenants.ts                  *)
(*   TenantModules page  src/src/features/super-admin/tenants/modules/     *)
(*                                                                         *)
(* Every function of the core is a pure function; a call is an action that *)
(* records the call and its outcome in the variables call and result.  An  *)
(* outcome is either a returned value or a thrown TypeError.               *)
(***************************************************************************)
EXTENDS Integers, Sequences, FiniteSets, TLC

VARIABLES moduleRegistry, userPermissions, call, result,
          mockTenants, mockTenantModules, page, settingsPage, listPage,
          multiStepForm, kanbanBoard, ribbonNavigation

\* The tenant settings page and the tenants list.
otherPages == <<settingsPage, listPage>>

\* The state of the super-admin side: the tenant store, the per-tenant module
\* records, the module-management page and the other pages.
tenantVars == <<mockTenants, mockTenantModules, page, otherPages>>

\* The shared components.
components == <<multiStepForm, kanbanBoard, ribbonNavigation>>
vars == <<moduleRegistry, userPermissions, call, result, tenantVars, components>>

(***************************************************************************)
(* Types of module-registry                                                *)
(***************************************************************************)

\* type RibbonType
RibbonType == {"main", "setup", "operations", "reports"}

\* type Permission, in the order of its declaration
PermissionOrder ==
    <<"view", "add", "edit", "delete", "approve", "post", "print", "export">>

Permission == {PermissionOrder[i] : i \in 1..Len(PermissionOrder)}

Range(s) == {s[i] : i \in 1..Len(s)}

\* The array listing the capabilities of S in declaration order.
PermissionArray(S) == SelectSeq(PermissionOrder, LAMBDA p : p \in S)

(***************************************************************************)
(* Outcomes of a call                                                      *)
(***************************************************************************)

Return(v) == [threw |-> FALSE, value |-> v]

\* "modulePermissions.includes is not a function"
TypeError == [threw |-> TRUE, value |-> "TypeError"]

NoResult == [threw |-> FALSE, value |-> "none"]

(***************************************************************************)
(* Bounds and input sets                                                   *)
(***************************************************************************)

\* longest list of required capabilities passed to checkAny/checkAll
MaxReq == 3

\* longest permissions list of a menu item handed to the filter
MaxItemPerms == 2

\* longest item array handed to the filter
MaxItems == 2

\* longest module registry
MaxModules == 2

\* longest menu contribution of a module to the main ribbon
MaxRibbonItems == 2

\* Module ids used as arguments.  "constructor" stands for the names every
\* object literal inherits from Object.prototype (constructor, toString,
\* valueOf, hasOwnProperty, __proto__, ...).
ModuleIds == {"academic", "finance", "system", "constructor"}

ObjectPrototypeKeys == {"constructor"}

SeqsUpTo(S, n) == UNION {[1..k -> S] : k \in 0..n}

\* capabilities used in required lists
ReqTokens == {"view", "edit", "delete"}

ReqLists == SeqsUpTo(ReqTokens, MaxReq)

\* The permission maps of the checker: "academic" holds any set of
\* capabilities or is absent, "finance" holds one of two lists or is absent.
FinanceLists == {<<"view">>, <<"edit", "delete">>}

CheckerMaps ==
    {m \in UNION {[D -> {PermissionArray(S) : S \in SUBSET Permission} \cup FinanceLists] :
                     D \in SUBSET {"academic", "finance"}} :
        /\ "finance" \in DOMAIN m => m["finance"] \in FinanceLists
        /\ "academic" \in DOMAIN m =>
               m["academic"] \in {PermissionArray(S) : S \in SUBSET Permission}}

\* A menu item: ref is the identity of the object (two items may agree in
\* every field), hasPermissions tells whether the optional permissions field
\* is present.
MenuItem(ref, href, hasPermissions, permissions) ==
    [ref |-> ref, href |-> href, hasPermissions |-> hasPermissions,
     permissions |-> permissions]

\* capabilities used in the permissions of the items handed to the filter
ItemTokens == {"view", "edit"}

\* permissions of an item: absent, or a list (the empty one included)
ItemPermissionOptions ==
    {[has |-> FALSE, list |-> <<>>]} \cup
    {[has |-> TRUE, list |-> l] : l \in SeqsUpTo(ItemTokens, MaxItemPerms)}

\* The item arrays handed to the filter; the k-th object has ref k.
FilterItems ==
    UNION {{[k \in 1..n |-> MenuItem(k, "/admin", o[k].has, o[k].list)] :
               o \in [1..n -> ItemPermissionOptions]} : n \in 0..MaxItems}

\* The permission maps handed to the filter.
FilterMaps ==
    {m \in UNION {[D -> {PermissionArray(S) : S \in SUBSET ReqTokens}] :
                     D \in SUBSET {"academic", "finance"}} :
        "academic" \in DOMAIN m => m["academic"] = <<"view">>}

\* The module ids of the registry, in the order of its definition.
RegistryIds ==
    <<"academic", "exams", "finance", "hr", "procurement", "library", "lms",
      "system">>

\* The k-th menu item module id contributes to ribbon.  As in the registry,
\* first items of different modules share the href '/admin'; second items
\* carry a permissions list.
RegistryItem(id, ribbon, k) ==
    MenuItem(<<id, ribbon, k>>, IF k = 1 THEN "/admin" ELSE "/users",
             k = 2, IF k = 2 THEN <<"view">> ELSE <<>>)

Contribution(id, ribbon, n) == [k \in 1..n |-> RegistryItem(id, ribbon, k)]

Absent == -1

\* The ribbons object of a module with mainN items for main and setupN for
\* setup, Absent standing for a ribbon the object does not name.  No module
\* names operations or reports here (as 'system' names setup only).
Ribbons(id, mainN, setupN) ==
    [r \in (IF mainN = Absent THEN {} ELSE {"main"})
           \cup (IF setupN = Absent THEN {} ELSE {"setup"}) |->
        Contribution(id, r, IF r = "main" THEN mainN ELSE setupN)]

ModuleConfigs(id) ==
    {[id |-> id, enabled |-> e, ribbons |-> Ribbons(id, mainN, setupN)] :
        e \in BOOLEAN, mainN \in Absent..MaxRibbonItems, setupN \in {Absent, 1}}

\* The registries: n modules with the first n ids, pairwise distinct.
Registries ==
    UNION {{reg \in [1..n -> UNION {ModuleConfigs(RegistryIds[j]) : j \in 1..n}] :
               \A j \in 1..n : reg[j].id = RegistryIds[j]} : n \in 0..MaxModules}

\* A registry in the shape of the real one: an enabled module with items on
\* two ribbons and a disabled one.
CoreRegistry ==
    <<[id |-> "academic", enabled |-> TRUE, ribbons |-> Ribbons("academic", 2, 1)],
      [id |-> "exams", enabled |-> FALSE, ribbons |-> Ribbons("exams", 1, Absent)]>>

\* The permission maps of the navigation.
NavMaps ==
    {m \in UNION {[D -> {<<"view">>}] : D \in SUBSET {"academic", "system"}} :
        Cardinality(DOMAIN m) <= 1}

NoCall ==
    [op |-> "none", moduleId |-> "", permission |-> "", permissions |-> <<>>,
     items |-> <<>>, ribbon |-> "", enabledOnly |-> TRUE,
     tenantId |-> 0, data |-> [none |-> TRUE], enabled |-> FALSE]

(***************************************************************************)
(* permission-checker                                                      *)
(***************************************************************************)

\* userPermissions[moduleId]: an own property is the stored array, a name
\* inherited from Object.prototype is a function or object, anything else
\* is undefined.
PropertyGet(map, moduleId) ==
    IF moduleId \in DOMAIN map
        THEN [kind |-> "array", elems |-> map[moduleId]]
    ELSE IF moduleId \in ObjectPrototypeKeys
        THEN [kind |-> "inherited", elems |-> <<>>]
    ELSE [kind |-> "undefined", elems |-> <<>>]

\* x || []: undefined is falsy; arrays (also empty ones), functions and
\* objects are truthy.
OrEmptyArray(x) ==
    IF x.kind = "undefined" THEN [kind |-> "array", elems |-> <<>>] ELSE x

\* Array.prototype.includes
Includes(s, x) == \E i \in 1..Len(s) : s[i] = x

checkPermission(map, moduleId, permission) ==
    LET modulePermissions == OrEmptyArray(PropertyGet(map, moduleId))
    IN  IF modulePermissions.kind = "array"
            THEN Return(Includes(modulePermissions.elems, permission))
            ELSE TypeError

\* permissions.some(...) from index i on: the first true ends the scan, an
\* exception of the callback leaves it.
RECURSIVE SomeFrom(_, _, _, _)
SomeFrom(map, moduleId, permissions, i) ==
    IF i > Len(permissions) THEN Return(FALSE)
    ELSE LET r == checkPermission(map, moduleId, permissions[i])
         IN  IF r.threw THEN r
             ELSE IF r.value THEN Return(TRUE)
             ELSE SomeFrom(map, moduleId, permissions, i + 1)

\* permissions.every(...) from index i on: the first false ends the scan.
RECURSIVE EveryFrom(_, _, _, _)
EveryFrom(map, moduleId, permissions, i) ==
    IF i > Len(permissions) THEN Return(TRUE)
    ELSE LET r == checkPermission(map, moduleId, permissions[i])
         IN  IF r.threw THEN r
             ELSE IF ~r.value THEN Return(FALSE)
             ELSE EveryFrom(map, moduleId, permissions, i + 1)

\* faulty variant: every in place of some
checkAnyPermissionAsAll(map, moduleId, permissions) ==
    EveryFrom(map, moduleId, permissions, 1)

checkAnyPermission(map, moduleId, permissions) ==
    SomeFrom(map, moduleId, permissions, 1)

\* faulty variant: some in place of every
checkAllPermissionsAsAny(map, moduleId, permissions) ==
    SomeFrom(map, moduleId, permissions, 1)

checkAllPermissions(map, moduleId, permissions) ==
    EveryFrom(map, moduleId, permissions, 1)

\* faulty variant: any held capability grants access
canAccessModuleAnyCapability(map, moduleId) ==
    LET got == OrEmptyArray(PropertyGet(map, moduleId))
    IN  IF got.kind = "array" THEN Return(Len(got.elems) > 0) ELSE TypeError

canAccessModule(map, moduleId) == checkPermission(map, moduleId, "view")

\* The callback of items.filter.
KeepItem(item, map, moduleId) ==
    IF ~item.hasPermissions \/ Len(item.permissions) = 0
        THEN Return(TRUE)
        ELSE checkAnyPermission(map, moduleId, item.permissions)

\* items.filter(...) from index i on, acc being the items kept so far; an
\* exception of the callback leaves the filter.
RECURSIVE FilterFrom(_, _, _, _, _)
FilterFrom(items, map, moduleId, i, acc) ==
    IF i > Len(items) THEN Return(acc)
    ELSE LET keep == KeepItem(items[i], map, moduleId)
         IN  IF keep.threw THEN keep
             ELSE FilterFrom(items, map, moduleId, i + 1,
                             IF keep.value THEN Append(acc, items[i]) ELSE acc)

RECURSIVE Reverse(_)
Reverse(s) == IF s = <<>> THEN <<>> ELSE Append(Reverse(Tail(s)), Head(s))

\* faulty variant: the kept items are returned last first
filterMenuItemsReversed(items, map, moduleId) ==
    LET r == FilterFrom(items, map, moduleId, 1, <<>>)
    IN  IF r.threw THEN r ELSE Return(Reverse(r.value))

\* faulty variant: an item is kept only when every listed capability is held
filterMenuItemsRequiringAll(items, map, moduleId) ==
    LET RECURSIVE go(_, _)
        go(i, acc) ==
            IF i > Len(items) THEN Return(acc)
            ELSE LET keep == IF ~items[i].hasPermissions
                                    \/ Len(items[i].permissions) = 0
                                 THEN Return(TRUE)
                                 ELSE checkAllPermissions(map, moduleId,
                                                          items[i].permissions)
                 IN  IF keep.threw THEN keep
                     ELSE go(i + 1, IF keep.value THEN Append(acc, items[i])
                                    ELSE acc)
    IN  go(1, <<>>)

filterMenuItemsByPermission(items, map, moduleId) ==
    FilterFrom(items, map, moduleId, 1, <<>>)

(***************************************************************************)
(* module-registry                                                         *)
(***************************************************************************)

\* module.ribbons[ribbon] && module.ribbons[ribbon].length > 0: a ribbon the
\* object does not name is undefined (falsy), an empty array is truthy.
HasContribution(module, ribbon) ==
    /\ ribbon \in DOMAIN module.ribbons
    /\ Len(module.ribbons[ribbon]) > 0

\* faulty variant: the enabled flag is not looked at
getModulesByRibbonIgnoringEnabled(ribbon, enabledOnly) ==
    Return(SelectSeq(moduleRegistry, LAMBDA module : HasContribution(module, ribbon)))

getModulesByRibbon(ribbon, enabledOnly) ==
    Return(SelectSeq(moduleRegistry,
                     LAMBDA module : /\ (~enabledOnly \/ module.enabled)
                                     /\ HasContribution(module, ribbon)))

\* module.ribbons[ribbon] || []
RibbonItems(module, ribbon) ==
    IF ribbon \in DOMAIN module.ribbons THEN module.ribbons[ribbon] ELSE <<>>

\* modules.flatMap(module => module.ribbons[ribbon] || [])
RECURSIVE FlatMapRibbon(_, _)
FlatMapRibbon(modules, ribbon) ==
    IF modules = <<>> THEN <<>>
    ELSE RibbonItems(Head(modules), ribbon) \o FlatMapRibbon(Tail(modules), ribbon)

\* s without the items whose href an earlier item of s has
RECURSIVE DedupByHref(_, _)
DedupByHref(s, seen) ==
    IF s = <<>> THEN <<>>
    ELSE IF Head(s).href \in seen THEN DedupByHref(Tail(s), seen)
    ELSE <<Head(s)>> \o DedupByHref(Tail(s), seen \cup {Head(s).href})

\* faulty variant: one item per href
getMenuItemsForRibbonDedup(ribbon, enabledOnly) ==
    Return(DedupByHref(
               FlatMapRibbon(getModulesByRibbon(ribbon, enabledOnly).value, ribbon),
               {}))

\* faulty variant: the modules are not restricted to the enabled ones
getMenuItemsForRibbonAllModules(ribbon, enabledOnly) ==
    Return(FlatMapRibbon(getModulesByRibbon(ribbon, FALSE).value, ribbon))

getMenuItemsForRibbon(ribbon, enabledOnly) ==
    LET modules == getModulesByRibbon(ribbon, enabledOnly).value
    IN  Return(FlatMapRibbon(modules, ribbon))

\* What Array.prototype.find returns when no element satisfies the callback.
undefined == [undefined |-> TRUE]

\* faulty variant: falls back to the first module of the registry
getModuleByIdOrFirst(id) ==
    LET found == SelectSeq(moduleRegistry, LAMBDA module : module.id = id)
    IN  Return(IF found # <<>> THEN Head(found)
               ELSE IF moduleRegistry # <<>> THEN Head(moduleRegistry)
               ELSE undefined)

\* moduleRegistry.find((module) => module.id === id): the first module with
\* that id, undefined when there is none.
getModuleById(id) ==
    LET found == SelectSeq(moduleRegistry, LAMBDA module : module.id = id)
    IN  Return(IF found = <<>> THEN undefined ELSE Head(found))

(***************************************************************************)
(* RibbonNavigation                                                        *)
(***************************************************************************)

\* the default of the enabledRibbons prop
enabledRibbons == <<"main", "setup", "operations", "reports">>

\* renderMenuItems: the items the desktop tab of a ribbon shows
renderMenuItems(items, moduleId) ==
    filterMenuItemsByPermission(items, userPermissions, moduleId)

\* faulty variant: every item is filtered against the module that owns it
renderRibbonContentByOwner(ribbon) ==
    LET menuItems == getMenuItemsForRibbon(ribbon, TRUE).value
    IN  Return(SelectSeq(menuItems, LAMBDA item :
            \/ ~item.hasPermissions
            \/ item.permissions = <<>>
            \/ checkAnyPermission(userPermissions, item.ref[1], item.permissions)
                   = Return(TRUE)))

\* renderRibbonContent
renderRibbonContent(ribbon) ==
    LET menuItems == getMenuItemsForRibbon(ribbon, TRUE).value
    IN  renderMenuItems(menuItems, "system")

\* the items the mobile drawer lists for a ribbon
drawerItems(ribbon) == getMenuItemsForRibbon(ribbon, TRUE)

\* One render of the component: the lists of every enabled ribbon, on the
\* desktop tabs and in the mobile drawer.
RibbonNavigation ==
    IF \E i \in 1..Len(enabledRibbons) :
           renderRibbonContent(enabledRibbons[i]).threw
        THEN TypeError
        ELSE Return([desktop |-> [r \in Range(enabledRibbons) |->
                                     renderRibbonContent(r).value],
                     mobile  |-> [r \in Range(enabledRibbons) |->
                                     drawerItems(r).value]])

(***************************************************************************)
(* usePermission / useCanAccess                                            *)
(***************************************************************************)

hasPermission(moduleId, permission) ==
    checkPermission(userPermissions, moduleId, permission)

\* The flags of useCanAccess; an exception of any hasPermission call leaves
\* the hook.
useCanAccess(moduleId) ==
    IF \E p \in Permission : hasPermission(moduleId, p).threw
        THEN TypeError
        ELSE Return([canView    |-> hasPermission(moduleId, "view").value,
                     canAdd     |-> hasPermission(moduleId, "add").value,
                     canEdit    |-> hasPermission(moduleId, "edit").value,
                     canDelete  |-> hasPermission(moduleId, "delete").value,
                     canApprove |-> hasPermission(moduleId, "approve").value,
                     canPost    |-> hasPermission(moduleId, "post").value,
                     canPrint   |-> hasPermission(moduleId, "print").value,
                     canExport  |-> hasPermission(moduleId, "export").value,
                     canAccess  |-> hasPermission(moduleId, "view").value])

(***************************************************************************)
(* Tenant store (mock data) and the super-admin API                        *)
(*                                                                         *)
(*   mock store         src/src/lib/mock-data/tenants.ts                   *)
(*   super-admin API    src/unnamed/part_001, lines 1-248                  *)
(*                                                                         *)
(* A tenant id '550e8400-e29b-41d4-a716-44665544000k' is modelled by the   *)
(* number k.  Of a tenant the model keeps id, subdomain, status, plan and  *)
(* deletedAt; a Date is modelled by the one value Date.                    *)
(***************************************************************************)

TenantStatus == {"active", "inactive", "suspended", "trial"}

TenantPlan == {"free", "basic", "premium", "enterprise"}

null == "null"

\* new Date()
Date == "Date"

\* throw new Error(message)
Throw(message) == [threw |-> TRUE, value |-> message]

Tenant(id, subdomain, status, plan) ==
    [id |-> id, subdomain |-> subdomain, status |-> status, plan |-> plan,
     deletedAt |-> null]

\* mockTenants as the module defines it
MockTenants ==
    <<Tenant(1, "abc", "active", "premium"),
      Tenant(2, "xyz", "active", "basic"),
      Tenant(3, "kpc", "trial", "free"),
      Tenant(4, "elite", "suspended", "premium"),
      Tenant(5, "rsdc", "active", "enterprise")>>

TenantModule(id, tenantId, moduleId, enabled) ==
    [id |-> id, tenantId |-> tenantId, moduleId |-> moduleId, enabled |-> enabled]

\* mockTenantModules as the module defines it: records for three tenants
MockTenantModules ==
    [t \in {1, 2, 3} |->
        CASE t = 1 -> [k \in 1..7 |-> TenantModule(k, 1, RegistryIds[k], TRUE)]
          [] t = 2 -> [k \in 1..3 |-> TenantModule(k + 7, 2, RegistryIds[k], TRUE)]
          [] t = 3 -> [k \in 1..2 |-> TenantModule(k + 10, 3, RegistryIds[k], TRUE)]]

\* The module-management page before it is mounted.  Its fields are the
\* component's state (tenant: the id of the loaded tenant, 0 for null;
\* modules: "store" when the state holds the array object stored in
\* mockTenantModules[id], "own" when it holds an empty array of its own;
\* moduleStates; isLoading; isSaving), the position of its handlers (pc), the
\* toggleTenantModule calls in flight (pending), and, to state properties, the
\* switch states when Save was last pressed (pressed) and whether a switch
\* was flipped while that save was in flight (flipped).
NoPage ==
    [mounted |-> FALSE, id |-> 0, tenant |-> 0, modules |-> "own",
     moduleStates |-> << >>, isLoading |-> TRUE, isSaving |-> FALSE,
     pc |-> "unmounted", pending |-> {}, pressed |-> << >>, flipped |-> FALSE]

\* The settings page before it is mounted: tenant (0 for null), isLoading,
\* isSaving and the position of its handlers (pc).
NoSettingsPage ==
    [mounted |-> FALSE, id |-> 0, tenant |-> 0, isLoading |-> TRUE,
     isSaving |-> FALSE, pc |-> "unmounted"]

\* No row action of the tenants list is in flight.
NoRequest == [op |-> "none", id |-> 0, status |-> "", filter |-> ""]

\* The tenants list before it is mounted: the ids of the tenants shown,
\* isLoading, statusFilter, oldest first the status filters of the getTenants
\* calls in flight (loads), and the row action in flight (request).
NoListPage ==
    [mounted |-> FALSE, tenants |-> << >>, isLoading |-> TRUE,
     statusFilter |-> "all", loads |-> << >>, request |-> NoRequest]

\* The multi-step form before it is mounted: its steps prop (validate tells
\* whether the step has a validate function), currentStep and errors; the
\* number of onSubmit calls so far; the handler that ran last, with the number
\* of validate calls it made and the last result of validateStep; and the
\* steps on which validateStep returned true while they were current (passed).
NoEvent == [op |-> "none", validateCalls |-> 0, isValid |-> FALSE]
NoForm ==
    [mounted |-> FALSE, steps |-> << >>, currentStep |-> 0, errors |-> << >>,
     onSubmit |-> 0, event |-> NoEvent, passed |-> {}]

\* The kanban board before it is mounted: cards and draggedCard; whether the
\* onCardMove prop is given and the calls made to it (moves); and the drag
\* session of the browser: its phase, the position of the card picked up
\* (dragging, 0 when the drag comes from outside the board) and the status of
\* the column last dropped on.
NoBoard ==
    [mounted |-> FALSE, cards |-> << >>, draggedCard |-> "null",
     onCardMove |-> FALSE, moves |-> << >>,
     phase |-> "none", dragging |-> 0, dropTarget |-> ""]

\* The activeRibbon prop is not given.
NotProvided == "undefined"

\* The ribbon navigation before it is mounted: the activeRibbon and
\* enabledRibbons props, location.pathname (its segments, and whether it ends
\* with a slash) and activeTab.
NoRibbonNavigation ==
    [mounted |-> FALSE, activeRibbon |-> NotProvided, enabledRibbons |-> {},
     pathname |-> [segments |-> << >>, slash |-> FALSE], activeTab |-> "main"]

InitTenantStore ==
    /\ ribbonNavigation = NoRibbonNavigation
    /\ multiStepForm = NoForm
    /\ kanbanBoard = NoBoard
    /\ mockTenants = MockTenants
    /\ mockTenantModules = MockTenantModules
    /\ page = NoPage
    /\ settingsPage = NoSettingsPage
    /\ listPage = NoListPage

\* mockTenants.findIndex((t) => t.id === id)
findIndex(tenants, id) ==
    IF \E i \in 1..Len(tenants) : tenants[i].id = id
        THEN CHOOSE i \in 1..Len(tenants) :
                 /\ tenants[i].id = id
                 /\ \A j \in 1..(i - 1) : tenants[j].id # id
        ELSE -1

\* { ...obj, ...data }
Spread(obj, data) ==
    [k \in DOMAIN obj \cup DOMAIN data |->
        IF k \in DOMAIN data THEN data[k] ELSE obj[k]]

\* The mock functions work on the store after their delay, in one piece; each
\* gives the store it leaves and what it returns or throws.
\* faulty variant: the subdomain is not looked up
mockRegisterTenantUnchecked(tenants, data) ==
    LET newTenant == [id |-> Len(tenants) + 1, subdomain |-> data.subdomain,
                      status |-> "trial", plan |-> data.plan, deletedAt |-> null]
    IN  [tenants |-> Append(tenants, newTenant), outcome |-> Return(newTenant)]

mockRegisterTenant(tenants, data) ==
    IF \E i \in 1..Len(tenants) : tenants[i].subdomain = data.subdomain
        THEN [tenants |-> tenants, outcome |-> Throw("Subdomain already exists")]
        ELSE LET newTenant == [id |-> Len(tenants) + 1,
                               subdomain |-> data.subdomain,
                               status |-> "trial",
                               plan |-> data.plan,
                               deletedAt |-> null]
             IN  [tenants |-> Append(tenants, newTenant),
                  outcome |-> Return(newTenant)]

mockUpdateTenant(tenants, id, data) ==
    LET index == findIndex(tenants, id)
    IN  IF index = -1
            THEN [tenants |-> tenants, outcome |-> Throw("Tenant not found")]
            ELSE LET updated == Spread(tenants[index], data)
                 IN  [tenants |-> [tenants EXCEPT ![index] = updated],
                      outcome |-> Return(updated)]

mockUpdateTenantStatus(tenants, id, status) ==
    mockUpdateTenant(tenants, id, [status |-> status])

mockUpdateTenantPlan(tenants, id, plan) ==
    mockUpdateTenant(tenants, id, [plan |-> plan])

\* faulty variant: the record is removed from the store
mockDeleteTenantHard(tenants, id) ==
    LET index == findIndex(tenants, id)
    IN  IF index = -1
            THEN [tenants |-> tenants, outcome |-> Throw("Tenant not found")]
            ELSE [tenants |-> SubSeq(tenants, 1, index - 1)
                                  \o SubSeq(tenants, index + 1, Len(tenants)),
                  outcome |-> Return([success |-> TRUE])]

mockDeleteTenant(tenants, id) ==
    LET index == findIndex(tenants, id)
    IN  IF index = -1
            THEN [tenants |-> tenants, outcome |-> Throw("Tenant not found")]
            ELSE [tenants |-> [tenants EXCEPT ![index] =
                                  Spread(@, [deletedAt |-> Date,
                                             status |-> "inactive"])],
                  outcome |-> Return([success |-> TRUE])]

\* mockTenantModules[tenantId] || []
TenantModulesOf(modules, tenantId) ==
    IF tenantId \in DOMAIN modules THEN modules[tenantId] ELSE <<>>

\* mockToggleModule: the record of moduleId is replaced, or a new record is
\* pushed; neither the tenant store nor the registry is consulted.
mockToggleModule(modules, tenantId, moduleId, enabled) ==
    LET tenantModules == TenantModulesOf(modules, tenantId)
        found == {i \in 1..Len(tenantModules) :
                     tenantModules[i].moduleId = moduleId}
        index == CHOOSE i \in found : \A j \in found : i <= j
        module == IF found # {}
                      THEN [tenantModules[index] EXCEPT !.enabled = enabled]
                      ELSE TenantModule(Len(tenantModules) + 1, tenantId,
                                        moduleId, enabled)
        written == IF found # {}
                       THEN [tenantModules EXCEPT ![index] = module]
                       ELSE Append(tenantModules, module)
    IN  [modules |-> [t \in DOMAIN modules \cup {tenantId} |->
                         IF t = tenantId THEN written ELSE modules[t]],
         outcome |-> Return(module)]

\* try { return { success: true, data } } catch { return { success: false,
\* error: error.message } }
Caught(outcome) ==
    IF outcome.threw
        THEN Return([success |-> FALSE, error |-> outcome.value])
        ELSE Return([success |-> TRUE, data |-> outcome.value])

registerTenant(tenants, data) ==
    LET r == mockRegisterTenant(tenants, data)
    IN  [tenants |-> r.tenants, outcome |-> Caught(r.outcome)]

updateTenant(tenants, id, data) ==
    LET r == mockUpdateTenant(tenants, id, data)
    IN  [tenants |-> r.tenants, outcome |-> Caught(r.outcome)]

updateTenantStatus(tenants, id, status) ==
    LET r == mockUpdateTenantStatus(tenants, id, status)
    IN  [tenants |-> r.tenants, outcome |-> Caught(r.outcome)]

updateTenantPlan(tenants, id, plan) ==
    LET r == mockUpdateTenantPlan(tenants, id, plan)
    IN  [tenants |-> r.tenants, outcome |-> Caught(r.outcome)]

toggleTenantModule(modules, tenantId, moduleId, enabled) ==
    LET r == mockToggleModule(modules, tenantId, moduleId, enabled)
    IN  [modules |-> r.modules, outcome |-> Caught(r.outcome)]

\* deleteTenant drops what the mock returns: { success: true }
deleteTenant(tenants, id) ==
    LET r == mockDeleteTenant(tenants, id)
    IN  [tenants |-> r.tenants,
         outcome |-> IF r.outcome.threw THEN Caught(r.outcome)
                     ELSE Return([success |-> TRUE])]

(***************************************************************************)
(* Calls of the permission checker                                         *)
(***************************************************************************)

\* A call is made when the previous one has returned to its caller.
Idle == call.op = "none"

\* The caller takes the outcome; the next call can be made.
Finish ==
    /\ ~Idle
    /\ call' = NoCall
    /\ result' = NoResult
    /\ UNCHANGED <<components, moduleRegistry, userPermissions, tenantVars>>

InitChecker ==
    /\ moduleRegistry = <<>>
    /\ userPermissions \in CheckerMaps
    /\ call = NoCall
    /\ result = NoResult
    /\ InitTenantStore

CallCheckPermission ==
    /\ Idle
    /\ \E id \in ModuleIds, p \in Permission :
           /\ call' = [NoCall EXCEPT !.op = "checkPermission", !.moduleId = id,
                                     !.permission = p]
           /\ result' = checkPermission(userPermissions, id, p)
           /\ UNCHANGED <<components, moduleRegistry, userPermissions,
                          tenantVars>>

CallCheckAnyPermission ==
    /\ Idle
    /\ \E id \in ModuleIds, ps \in ReqLists :
           /\ call' = [NoCall EXCEPT !.op = "checkAnyPermission", !.moduleId = id,
                                     !.permissions = ps]
           /\ result' = checkAnyPermission(userPermissions, id, ps)
           /\ UNCHANGED <<components, moduleRegistry, userPermissions,
                          tenantVars>>

CallCheckAllPermissions ==
    /\ Idle
    /\ \E id \in ModuleIds, ps \in ReqLists :
           /\ call' = [NoCall EXCEPT !.op = "checkAllPermissions", !.moduleId = id,
                                     !.permissions = ps]
           /\ result' = checkAllPermissions(userPermissions, id, ps)
           /\ UNCHANGED <<components, moduleRegistry, userPermissions,
                          tenantVars>>

CallCanAccessModule ==
    /\ Idle
    /\ \E id \in ModuleIds :
           /\ call' = [NoCall EXCEPT !.op = "canAccessModule", !.moduleId = id]
           /\ result' = canAccessModule(userPermissions, id)
           /\ UNCHANGED <<components, moduleRegistry, userPermissions,
                          tenantVars>>

CallUseCanAccess ==
    /\ Idle
    /\ \E id \in ModuleIds :
           /\ call' = [NoCall EXCEPT !.op = "useCanAccess", !.moduleId = id]
           /\ result' = useCanAccess(id)
           /\ UNCHANGED <<components, moduleRegistry, userPermissions,
                          tenantVars>>

NextChecker ==
    \/ CallCheckPermission
    \/ CallCheckAnyPermission
    \/ CallCheckAllPermissions
    \/ CallCanAccessModule
    \/ CallUseCanAccess
    \/ Finish

SpecChecker == InitChecker /\ [][NextChecker]_vars

(***************************************************************************)
(* Claims about the permission checker (SpecChecker)                       *)
(***************************************************************************)

\* The capabilities the map holds for moduleId as an own entry.
Held(map, moduleId) ==
    IF moduleId \in DOMAIN map THEN Range(map[moduleId]) ELSE {}

\* C4: checkPermission(map, moduleId, capability) returns true if and only
\* if map has an entry for moduleId that contains capability; for a moduleId
\* absent from map it returns false and raises no error.
C4_CheckPermissionTotal ==
    call.op = "checkPermission" =>
        result = Return(call.permission \in Held(userPermissions, call.moduleId))

\* What holds of checkPermission: the only failure is the TypeError for a
\* moduleId that is no own key of the map and is inherited from
\* Object.prototype; every other call returns the membership test.
CheckPermissionOutsidePrototype ==
    call.op = "checkPermission" =>
        IF call.moduleId \in ObjectPrototypeKeys \ DOMAIN userPermissions
            THEN result = TypeError
            ELSE result = Return(call.permission
                                    \in Held(userPermissions, call.moduleId))

\* C5: checkAnyPermission returns true if and only if checkPermission returns
\* true for at least one element of capabilities; for the empty sequence it
\* returns false, for every map and moduleId, where checkAllPermissions
\* returns true.  It raises an error only where checkPermission does.
C5_CheckAnyPermission ==
    call.op = "checkAnyPermission" =>
        /\ (result = Return(TRUE)) <=>
               \E i \in 1..Len(call.permissions) :
                   checkPermission(userPermissions, call.moduleId,
                                   call.permissions[i]) = Return(TRUE)
        /\ (result = Return(FALSE)) <=>
               \A i \in 1..Len(call.permissions) :
                   checkPermission(userPermissions, call.moduleId,
                                   call.permissions[i]) = Return(FALSE)
        /\ call.permissions = <<>> =>
               /\ result = Return(FALSE)
               /\ checkAllPermissions(userPermissions, call.moduleId, <<>>)
                      = Return(TRUE)

\* C5 witness: a true answer found behind a first element that fails.
C5_Witness ==
    /\ call.op = "checkAnyPermission"
    /\ Len(call.permissions) = 3
    /\ call.permissions[1] \notin Held(userPermissions, call.moduleId)
    /\ call.permissions[3] \in Held(userPermissions, call.moduleId)
    /\ result = Return(TRUE)

\* C6: checkAllPermissions returns true if and only if every element of
\* capabilities passes checkPermission; it returns true for the empty
\* sequence, also when moduleId is absent from map, false for
\* {academic: [view, edit]} against [view, edit, delete] and true against
\* [view, edit].
C6_CheckAllPermissions ==
    call.op = "checkAllPermissions" =>
        /\ (result = Return(TRUE)) <=>
               \A i \in 1..Len(call.permissions) :
                   checkPermission(userPermissions, call.moduleId,
                                   call.permissions[i]) = Return(TRUE)
        /\ call.permissions = <<>> => result = Return(TRUE)
        /\ ( /\ "academic" \in DOMAIN userPermissions
             /\ userPermissions["academic"] = <<"view", "edit">>
             /\ call.moduleId = "academic" ) =>
               /\ call.permissions = <<"view", "edit", "delete">> =>
                      result = Return(FALSE)
               /\ call.permissions = <<"view", "edit">> =>
                      result = Return(TRUE)

\* C6 witness: the scenario with the missing delete.
C6_Witness ==
    /\ call.op = "checkAllPermissions"
    /\ "academic" \in DOMAIN userPermissions
    /\ userPermissions["academic"] = <<"view", "edit">>
    /\ call.moduleId = "academic"
    /\ call.permissions = <<"view", "edit", "delete">>
    /\ result = Return(FALSE)

\* The maps one edit away from map that leave capability p of moduleId alone:
\* another capability added to or removed from the entry of moduleId, or
\* another module's entry added, removed or replaced.
OtherEdits(map, moduleId, p) ==
    {[map EXCEPT ![moduleId] = Append(@, q)] :
        q \in IF moduleId \in DOMAIN map THEN Permission \ {p} ELSE {}}
    \cup
    {[map EXCEPT ![moduleId] = SelectSeq(@, LAMBDA x : x # q)] :
        q \in IF moduleId \in DOMAIN map THEN Permission \ {p} ELSE {}}
    \cup
    {[k \in DOMAIN map \ {other} |-> map[k]] :
        other \in DOMAIN map \ {moduleId}}
    \cup
    {[k \in DOMAIN map \cup {other} |->
         IF k = other THEN PermissionArray(S) ELSE map[k]] :
        other \in (ModuleIds \ {moduleId}),
        S \in {{}, {"view"}, Permission}}

\* C7: canAccessModule(map, moduleId) has the outcome of
\* checkPermission(map, moduleId, 'view'); a user holding other capabilities
\* on a module but not 'view' cannot access it; the answer for one capability
\* is unchanged by adding or removing another capability or another module's
\* entry; useCanAccess reports each capability on its own.
C7_NoHierarchy ==
    /\ call.op = "canAccessModule" =>
           /\ result = checkPermission(userPermissions, call.moduleId, "view")
           /\ call.moduleId \in DOMAIN userPermissions =>
                  result = Return("view" \in Held(userPermissions, call.moduleId))
    /\ call.op = "checkPermission" =>
           \A m2 \in OtherEdits(userPermissions, call.moduleId, call.permission) :
               checkPermission(m2, call.moduleId, call.permission) = result
    /\ (call.op = "useCanAccess" /\ ~result.threw) =>
           LET has == Held(userPermissions, call.moduleId)
           IN  result.value =
                   [canView    |-> "view" \in has,
                    canAdd     |-> "add" \in has,
                    canEdit    |-> "edit" \in has,
                    canDelete  |-> "delete" \in has,
                    canApprove |-> "approve" \in has,
                    canPost    |-> "post" \in has,
                    canPrint   |-> "print" \in has,
                    canExport  |-> "export" \in has,
                    canAccess  |-> "view" \in has]

\* C7 witness: every capability but view is held, and access is refused.
C7_Witness ==
    /\ call.op = "canAccessModule"
    /\ Held(userPermissions, call.moduleId) = Permission \ {"view"}
    /\ result = Return(FALSE)

(***************************************************************************)
(* Calls of the menu filter                                                *)
(***************************************************************************)

InitFilter ==
    /\ moduleRegistry = <<>>
    /\ userPermissions \in FilterMaps
    /\ call = NoCall
    /\ result = NoResult
    /\ InitTenantStore

CallFilterMenuItemsByPermission ==
    /\ Idle
    /\ \E items \in FilterItems, id \in ModuleIds :
           /\ call' = [NoCall EXCEPT !.op = "filterMenuItemsByPermission",
                                     !.items = items, !.moduleId = id]
           /\ result' = filterMenuItemsByPermission(items, userPermissions, id)
           /\ UNCHANGED <<components, moduleRegistry, userPermissions,
                          tenantVars>>

NextFilter ==
    \/ CallFilterMenuItemsByPermission
    \/ Finish

SpecFilter == InitFilter /\ [][NextFilter]_vars

(***************************************************************************)
(* Claims about the menu filter (SpecFilter)                               *)
(***************************************************************************)

Public(item) == ~item.hasPermissions \/ item.permissions = <<>>

\* res lists elements of s in their order in s, each position of s at most
\* once.
IsSubsequence(res, s) ==
    \E f \in [1..Len(res) -> 1..Len(s)] :
        /\ \A i, j \in 1..Len(res) : i < j => f[i] < f[j]
        /\ \A i \in 1..Len(res) : res[i] = s[f[i]]

\* C1: filterMenuItemsByPermission returns a list that holds every input
\* item whose permissions are absent or empty, for every permission map and
\* every moduleId.
C1_PublicItemsKept ==
    call.op = "filterMenuItemsByPermission" =>
        \A i \in 1..Len(call.items) :
            Public(call.items[i]) =>
                /\ ~result.threw
                /\ call.items[i] \in Range(result.value)

\* What holds of the filter: a list is returned unless a restricted item
\* meets a moduleId inherited from Object.prototype, and a returned list
\* holds every public item.
PublicItemsKeptWhenReturned ==
    call.op = "filterMenuItemsByPermission" =>
        /\ result.threw <=>
               /\ call.moduleId \in ObjectPrototypeKeys \ DOMAIN userPermissions
               /\ \E i \in 1..Len(call.items) : ~Public(call.items[i])
        /\ ~result.threw =>
               \A i \in 1..Len(call.items) :
                   Public(call.items[i]) => call.items[i] \in Range(result.value)

\* C2: an item with a non-empty permissions list is in the returned list if
\* and only if userPermissions[moduleId] holds at least one of the listed
\* capabilities; an item requiring [view] is returned for {finance: [view]}
\* with moduleId finance and dropped for the empty map.
C2_AnyListedCapability ==
    call.op = "filterMenuItemsByPermission" =>
        /\ \A i \in 1..Len(call.items) :
               ~Public(call.items[i]) =>
                   ( (~result.threw /\ call.items[i] \in Range(result.value))
                     <=> (Range(call.items[i].permissions)
                             \cap Held(userPermissions, call.moduleId) # {}) )
        /\ ( /\ Len(call.items) = 1
             /\ call.items[1].hasPermissions
             /\ call.items[1].permissions = <<"view">>
             /\ call.moduleId = "finance" ) =>
               /\ userPermissions = [k \in {"finance"} |-> <<"view">>] =>
                      result = Return(call.items)
               /\ DOMAIN userPermissions = {} => result = Return(<<>>)

\* C2 witness: of two restricted items the one with a held capability listed
\* second is kept and the other is dropped.
C2_Witness ==
    /\ call.op = "filterMenuItemsByPermission"
    /\ Len(call.items) = 2
    /\ ~Public(call.items[1]) /\ ~Public(call.items[2])
    /\ Len(call.items[2].permissions) = 2
    /\ call.items[2].permissions[1] \notin Held(userPermissions, call.moduleId)
    /\ result = Return(<<call.items[2]>>)

\* C3: the returned list is a subsequence of the input: the surviving items
\* in their input order, none added, duplicated or moved.
C3_StableFilter ==
    (call.op = "filterMenuItemsByPermission" /\ ~result.threw) =>
        IsSubsequence(result.value, call.items)

\* C3 witness: a restricted and a public item both survive.
C3_Witness ==
    /\ call.op = "filterMenuItemsByPermission"
    /\ Len(call.items) = 2
    /\ ~Public(call.items[1])
    /\ Public(call.items[2])
    /\ result = Return(call.items)

(***************************************************************************)
(* Calls of the module registry and renders of the ribbon navigation       *)
(***************************************************************************)

InitRegistry ==
    /\ moduleRegistry \in Registries
    /\ userPermissions \in NavMaps
    /\ call = NoCall
    /\ result = NoResult
    /\ InitTenantStore

\* faulty variant: the registry is filtered in place
CallGetModulesByRibbonInPlace ==
    /\ Idle
    /\ \E r \in RibbonType, e \in BOOLEAN :
           /\ call' = [NoCall EXCEPT !.op = "getModulesByRibbon", !.ribbon = r,
                                     !.enabledOnly = e]
           /\ result' = getModulesByRibbon(r, e)
           /\ moduleRegistry' = getModulesByRibbon(r, e).value
           /\ UNCHANGED <<components, userPermissions, tenantVars>>

CallGetModulesByRibbon ==
    /\ Idle
    /\ \E r \in RibbonType, e \in BOOLEAN :
           /\ call' = [NoCall EXCEPT !.op = "getModulesByRibbon", !.ribbon = r,
                                     !.enabledOnly = e]
           /\ result' = getModulesByRibbon(r, e)
           /\ UNCHANGED <<components, moduleRegistry, userPermissions,
                          tenantVars>>

CallGetMenuItemsForRibbon ==
    /\ Idle
    /\ \E r \in RibbonType, e \in BOOLEAN :
           /\ call' = [NoCall EXCEPT !.op = "getMenuItemsForRibbon",
                                     !.ribbon = r, !.enabledOnly = e]
           /\ result' = getMenuItemsForRibbon(r, e)
           /\ UNCHANGED <<components, moduleRegistry, userPermissions,
                          tenantVars>>

\* The ids getModuleById is asked for: registry ids, an id that differs from
\* one in case only, the empty string and an id no module has.
LookupIds == {"academic", "exams", "finance", "Academic", "", "payroll"}

CallGetModuleById ==
    /\ Idle
    /\ \E id \in LookupIds :
           /\ call' = [NoCall EXCEPT !.op = "getModuleById", !.moduleId = id]
           /\ result' = getModuleById(id)
           /\ UNCHANGED <<components, moduleRegistry, userPermissions,
                          tenantVars>>

RenderRibbonNavigation ==
    /\ Idle
    /\ call' = [NoCall EXCEPT !.op = "RibbonNavigation"]
    /\ result' = RibbonNavigation
    /\ UNCHANGED <<components, moduleRegistry, userPermissions, tenantVars>>

NextRegistry ==
    \/ CallGetModulesByRibbon
    \/ CallGetModuleById
    \/ CallGetMenuItemsForRibbon
    \/ RenderRibbonNavigation
    \/ Finish

SpecRegistry == InitRegistry /\ [][NextRegistry]_vars

(***************************************************************************)
(* Claims about the module registry (SpecRegistry)                         *)
(***************************************************************************)

\* The module is asked for by (ribbon, enabledOnly).
Qualifies(module, ribbon, enabledOnly) ==
    /\ enabledOnly => module.enabled
    /\ ribbon \in DOMAIN module.ribbons
    /\ module.ribbons[ribbon] # <<>>

\* res lists, in the order of s, exactly the elements of s at the positions
\* in keep.
IsSelection(res, s, keep) ==
    \E f \in [1..Len(res) -> 1..Len(s)] :
        /\ \A i, j \in 1..Len(res) : i < j => f[i] < f[j]
        /\ \A i \in 1..Len(res) : res[i] = s[f[i]]
        /\ {f[i] : i \in 1..Len(res)} = keep

\* C8: getModulesByRibbon(ribbon, enabledOnly) returns, in registry order,
\* exactly the modules with a non-empty item sequence for the ribbon that
\* are enabled when enabledOnly is true: never a disabled module when
\* enabledOnly is true, never a module with an empty or absent contribution.
C8_ModulesByRibbon ==
    call.op = "getModulesByRibbon" =>
        /\ ~result.threw
        /\ IsSelection(result.value, moduleRegistry,
                       {j \in 1..Len(moduleRegistry) :
                           Qualifies(moduleRegistry[j], call.ribbon,
                                     call.enabledOnly)})
        /\ \A i \in 1..Len(result.value) :
               /\ call.enabledOnly => result.value[i].enabled
               /\ call.ribbon \in DOMAIN result.value[i].ribbons
               /\ Len(result.value[i].ribbons[call.ribbon]) >= 1

\* C8 witness: a disabled module with items for the ribbon is left out and
\* an enabled one behind it is returned.
C8_Witness ==
    /\ call.op = "getModulesByRibbon"
    /\ call.enabledOnly
    /\ Len(moduleRegistry) = 2
    /\ ~moduleRegistry[1].enabled
    /\ Qualifies(moduleRegistry[1], call.ribbon, FALSE)
    /\ result = Return(<<moduleRegistry[2]>>)

\* The items of a module, over all ribbons it names.
ItemsOf(module) ==
    UNION {Range(module.ribbons[r]) : r \in DOMAIN module.ribbons}

\* The items of the registry's disabled modules.
DisabledItems ==
    UNION {ItemsOf(moduleRegistry[j]) :
              j \in {i \in 1..Len(moduleRegistry) : ~moduleRegistry[i].enabled}}

\* The items a render shows anywhere.
RenderedItems(rendered) ==
    UNION {Range(rendered.desktop[r]) \cup Range(rendered.mobile[r]) :
              r \in Range(enabledRibbons)}

\* C9 as stated: no item of a disabled module is in the result of
\* getMenuItemsForRibbon, whatever the enabledOnly argument, nor in the lists
\* the ribbon navigation renders.
C9_DisabledContributesNowhere ==
    /\ call.op = "getMenuItemsForRibbon" =>
           Range(result.value) \cap DisabledItems = {}
    /\ (call.op = "RibbonNavigation" /\ ~result.threw) =>
           RenderedItems(result.value) \cap DisabledItems = {}

\* C9 amended: no item of a disabled module is in the result of
\* getMenuItemsForRibbon(ribbon, true), nor in the lists the ribbon
\* navigation renders on its desktop tabs and in its mobile drawer.
C9_DisabledHiddenWhenEnabledOnly ==
    /\ (call.op = "getMenuItemsForRibbon" /\ call.enabledOnly) =>
           Range(result.value) \cap DisabledItems = {}
    /\ (call.op = "RibbonNavigation" /\ ~result.threw) =>
           RenderedItems(result.value) \cap DisabledItems = {}

\* C9 witness: a render that shows items while a disabled module has items
\* for the main ribbon.
C9_Witness ==
    /\ call.op = "RibbonNavigation"
    /\ ~result.threw
    /\ \E j \in 1..Len(moduleRegistry) :
           /\ ~moduleRegistry[j].enabled
           /\ Qualifies(moduleRegistry[j], "main", FALSE)
    /\ result.value.desktop["main"] # <<>>
    /\ result.value.mobile["main"] # <<>>

\* The permission maps that agree with map on "system" and grant anything,
\* or nothing, on the modules that own the items.
AgreeingOnSystem(map) ==
    {[k \in D \cup (DOMAIN map \cap {"system"}) |->
         IF k = "system" THEN map[k] ELSE g[k]] :
        D \in SUBSET {"academic", "exams"},
        g \in [{"academic", "exams"} -> {<<>>, PermissionOrder}]}

\* C14: in the desktop ribbon every flattened menu item of every ribbon is
\* filtered against the module id "system": an item with a non-empty
\* permissions list is shown exactly when the user holds one of them on
\* "system", and two permission maps that agree on "system" yield the same
\* visible items whatever they grant on the item's owning module.
C14_FilteredAgainstSystem ==
    (call.op = "RibbonNavigation" /\ ~result.threw) =>
        \A r \in Range(enabledRibbons) :
            LET menuItems == getMenuItemsForRibbon(r, TRUE).value
                shown == result.value.desktop[r]
            IN  /\ shown = SelectSeq(menuItems, LAMBDA item :
                               \/ Public(item)
                               \/ \E p \in Range(item.permissions) :
                                      p \in Held(userPermissions, "system"))
                /\ \A m2 \in AgreeingOnSystem(userPermissions) :
                       filterMenuItemsByPermission(menuItems, m2, "system")
                           = Return(shown)

\* C14 witness: the user holds view on the module that owns an item
\* requiring view and nothing on "system"; the desktop tab hides the item the
\* drawer lists.
C14_Witness ==
    /\ call.op = "RibbonNavigation"
    /\ ~result.threw
    /\ userPermissions = [k \in {"academic"} |-> <<"view">>]
    /\ \E i \in 1..Len(result.value.mobile["main"]) :
           LET item == result.value.mobile["main"][i]
           IN  /\ item.ref[1] = "academic"
               /\ item.permissions = <<"view">>
               /\ item \notin Range(result.value.desktop["main"])

\* The number of items modules 1..n hand to the ribbon.
RECURSIVE ItemsBefore(_, _, _)
ItemsBefore(n, ribbon, enabledOnly) ==
    IF n = 0 THEN 0
    ELSE ItemsBefore(n - 1, ribbon, enabledOnly)
         + IF Qualifies(moduleRegistry[n], ribbon, enabledOnly)
               THEN Len(moduleRegistry[n].ribbons[ribbon]) ELSE 0

\* C10: getMenuItemsForRibbon(ribbon, true) is the concatenation, in registry
\* order of the modules of getModulesByRibbon(ribbon, true), of each module's
\* items for the ribbon in their own order; its length is the sum of the
\* lengths, items sharing an href included.
C10_Concatenation ==
    (call.op = "getMenuItemsForRibbon" /\ call.enabledOnly) =>
        /\ ~result.threw
        /\ Len(result.value)
               = ItemsBefore(Len(moduleRegistry), call.ribbon, TRUE)
        /\ \A j \in 1..Len(moduleRegistry) :
               Qualifies(moduleRegistry[j], call.ribbon, TRUE) =>
                   \A k \in 1..Len(moduleRegistry[j].ribbons[call.ribbon]) :
                       result.value[ItemsBefore(j - 1, call.ribbon, TRUE) + k]
                           = moduleRegistry[j].ribbons[call.ribbon][k]

\* C10 witness: two modules contribute items with the same href and both
\* items are in the result.
C10_Witness ==
    /\ call.op = "getMenuItemsForRibbon"
    /\ call.enabledOnly
    /\ Len(moduleRegistry) = 2
    /\ Len(result.value) = 4
    /\ result.value[1].href = result.value[3].href
    /\ result.value[1] # result.value[3]

\* C11: getModuleById(id) returns the module whose id equals id exactly, of
\* which the registry has only one, and returns the absent value without
\* raising an error when no module has that id.
C11_GetModuleById ==
    call.op = "getModuleById" =>
        LET matches == {j \in 1..Len(moduleRegistry) :
                            moduleRegistry[j].id = call.moduleId}
        IN  /\ ~result.threw
            /\ Cardinality(matches) <= 1
            /\ \A j \in matches : result.value = moduleRegistry[j]
            /\ matches = {} => result.value = undefined

\* C11 witness: the second module of the registry is found by its id, and an
\* id that differs in case only would not find the first.
C11_Witness ==
    /\ call.op = "getModuleById"
    /\ Len(moduleRegistry) = 2
    /\ call.moduleId = moduleRegistry[2].id
    /\ result = Return(moduleRegistry[2])
    /\ getModuleById("Academic") = Return(undefined)

(***************************************************************************)
(* Calls of the super-admin API on the tenant store                        *)
(*                                                                         *)
(* Every mock function awaits a timer and then runs to its end without     *)
(* another await, so concurrent calls take effect one after the other, in  *)
(* the order their timers fire: a call action is that step.                *)
(***************************************************************************)

\* bound: a registration that would make the store larger than this is not
\* made
MaxTenants == 6

\* The ids the calls name: a tenant of the mock data, the first tenant to be
\* registered, and an id no tenant has.
TenantIds == {1, 6, 9}

\* Registration data: a subdomain in use and a free one.
RegistrationData == {[subdomain |-> s, plan |-> "free"] : s \in {"abc", "new"}}

\* TenantUpdateData the schema accepts.
UpdateData == {[plan |-> "enterprise"], [subdomain |-> "moved"]}

PlanArgs == {"basic"}

InitTenants ==
    /\ moduleRegistry = CoreRegistry
    /\ userPermissions = << >>
    /\ call = NoCall
    /\ result = NoResult
    /\ InitTenantStore

CallRegisterTenant ==
    /\ Idle
    /\ \E data \in RegistrationData :
           LET r == registerTenant(mockTenants, data)
           IN  /\ Len(r.tenants) <= MaxTenants
               /\ call' = [NoCall EXCEPT !.op = "registerTenant", !.data = data]
               /\ result' = r.outcome
               /\ mockTenants' = r.tenants
    /\ UNCHANGED <<components, moduleRegistry, userPermissions,
                   mockTenantModules, page,
                   otherPages>>

CallUpdateTenant ==
    /\ Idle
    /\ \E id \in TenantIds, data \in UpdateData :
           LET r == updateTenant(mockTenants, id, data)
           IN  /\ call' = [NoCall EXCEPT !.op = "updateTenant", !.tenantId = id,
                                         !.data = data]
               /\ result' = r.outcome
               /\ mockTenants' = r.tenants
    /\ UNCHANGED <<components, moduleRegistry, userPermissions,
                   mockTenantModules, page,
                   otherPages>>

\* Also what Suspend and Activate of the list page do (handleStatusChange).
CallUpdateTenantStatus ==
    /\ Idle
    /\ \E id \in TenantIds, status \in TenantStatus :
           LET r == updateTenantStatus(mockTenants, id, status)
           IN  /\ call' = [NoCall EXCEPT !.op = "updateTenantStatus",
                                         !.tenantId = id,
                                         !.data = [status |-> status]]
               /\ result' = r.outcome
               /\ mockTenants' = r.tenants
    /\ UNCHANGED <<components, moduleRegistry, userPermissions,
                   mockTenantModules, page,
                   otherPages>>

CallUpdateTenantPlan ==
    /\ Idle
    /\ \E id \in TenantIds, plan \in PlanArgs :
           LET r == updateTenantPlan(mockTenants, id, plan)
           IN  /\ call' = [NoCall EXCEPT !.op = "updateTenantPlan",
                                         !.tenantId = id,
                                         !.data = [plan |-> plan]]
               /\ result' = r.outcome
               /\ mockTenants' = r.tenants
    /\ UNCHANGED <<components, moduleRegistry, userPermissions,
                   mockTenantModules, page,
                   otherPages>>

\* Also what Delete of the list page does (handleDelete).
CallDeleteTenant ==
    /\ Idle
    /\ \E id \in TenantIds :
           LET r == deleteTenant(mockTenants, id)
           IN  /\ call' = [NoCall EXCEPT !.op = "deleteTenant", !.tenantId = id]
               /\ result' = r.outcome
               /\ mockTenants' = r.tenants
    /\ UNCHANGED <<components, moduleRegistry, userPermissions,
                   mockTenantModules, page,
                   otherPages>>

\* faulty variant: the flag is also written to the module of the registry
CallToggleTenantModuleInRegistry(tenantIds, moduleIds) ==
    /\ Idle
    /\ \E tenantId \in tenantIds, moduleId \in moduleIds, enabled \in BOOLEAN :
           LET r == toggleTenantModule(mockTenantModules, tenantId, moduleId,
                                       enabled)
           IN  /\ call' = [NoCall EXCEPT !.op = "toggleTenantModule",
                                         !.tenantId = tenantId,
                                         !.moduleId = moduleId,
                                         !.enabled = enabled]
               /\ result' = r.outcome
               /\ mockTenantModules' = r.modules
               /\ moduleRegistry' =
                      [j \in 1..Len(moduleRegistry) |->
                          IF moduleRegistry[j].id = moduleId
                              THEN [moduleRegistry[j] EXCEPT !.enabled = enabled]
                              ELSE moduleRegistry[j]]
    /\ UNCHANGED <<components, userPermissions, mockTenants, page, otherPages>>

\* toggleTenantModule for a tenant id of tenantIds and a module id of moduleIds
CallToggleTenantModule(tenantIds, moduleIds) ==
    /\ Idle
    /\ \E tenantId \in tenantIds, moduleId \in moduleIds, enabled \in BOOLEAN :
           LET r == toggleTenantModule(mockTenantModules, tenantId, moduleId,
                                       enabled)
           IN  /\ call' = [NoCall EXCEPT !.op = "toggleTenantModule",
                                         !.tenantId = tenantId,
                                         !.moduleId = moduleId,
                                         !.enabled = enabled]
               /\ result' = r.outcome
               /\ mockTenantModules' = r.modules
    /\ UNCHANGED <<components, moduleRegistry, userPermissions, mockTenants,
                   page,
                   otherPages>>

NextTenants ==
    \/ CallRegisterTenant
    \/ CallUpdateTenant
    \/ CallUpdateTenantStatus
    \/ CallUpdateTenantPlan
    \/ CallDeleteTenant
    \/ CallToggleTenantModule({1}, {"academic"})
    \/ Finish

SpecTenants == InitTenants /\ [][NextTenants]_vars

(***************************************************************************)
(* toggleTenantModule called with any tenant id and module id              *)
(***************************************************************************)

\* A tenant of the mock data and an id no tenant has; a module of the
\* registry and an id no module has.
ToggleTenantIds == {1, 9}

ToggleModuleIds == {"academic", "payroll"}

NextToggle ==
    \/ CallToggleTenantModule(ToggleTenantIds, ToggleModuleIds)
    \/ Finish

SpecToggle == InitTenants /\ [][NextToggle]_vars

(***************************************************************************)
(* The module-management page                                              *)
(*   src/src/features/super-admin/tenants/modules/index.tsx                *)
(***************************************************************************)

\* The array the modules state holds.
PageModules(p) ==
    IF p.modules = "store" THEN mockTenantModules[p.id] ELSE << >>

\* moduleStates[module.id] || false
currentState(p, moduleId) ==
    IF moduleId \in DOMAIN p.moduleStates THEN p.moduleStates[moduleId] ELSE FALSE

\* modules.find((m) => m.moduleId === module.id)?.enabled || false
existingState(modules, moduleId) ==
    LET found == SelectSeq(modules, LAMBDA m : m.moduleId = moduleId)
    IN  IF found = << >> THEN FALSE ELSE Head(found).enabled

\* hasChanges
hasChanges(p) ==
    \E j \in 1..Len(moduleRegistry) :
        currentState(p, moduleRegistry[j].id)
            # existingState(PageModules(p), moduleRegistry[j].id)

\* The states loadTenant builds from result.modules: forEach assigns
\* states[m.moduleId] = m.enabled, a later record overwriting an earlier one.
ModuleStatesOf(modules) ==
    [moduleId \in {modules[i].moduleId : i \in 1..Len(modules)} |->
        LET last == CHOOSE i \in 1..Len(modules) :
                        /\ modules[i].moduleId = moduleId
                        /\ \A j \in (i + 1)..Len(modules) :
                               modules[j].moduleId # moduleId
        IN  modules[last].enabled]

\* faulty variant: only the switches that are on are saved
handleSaveUpdatesEnablingOnly(p) ==
    {[moduleId |-> moduleRegistry[j].id,
      enabled |-> currentState(p, moduleRegistry[j].id)] :
        j \in {k \in 1..Len(moduleRegistry) :
                  /\ currentState(p, moduleRegistry[k].id)
                  /\ ~existingState(PageModules(p), moduleRegistry[k].id)}}

\* The updates of handleSave: a toggleTenantModule call for every module of
\* the registry whose switch differs from the state of its record.
handleSaveUpdates(p) ==
    {[moduleId |-> moduleRegistry[j].id,
      enabled |-> currentState(p, moduleRegistry[j].id)] :
        j \in {k \in 1..Len(moduleRegistry) :
                  currentState(p, moduleRegistry[k].id)
                      # existingState(PageModules(p), moduleRegistry[k].id)}}

\* The tenants whose page is opened: one with module records in the mock
\* data, one without, and an id no tenant has.
PageTenantIds == {1, 4, 9}

\* The router shows one page at a time.
NoPageMounted ==
    ~page.mounted /\ ~settingsPage.mounted /\ ~listPage.mounted

\* The page is mounted: useState defaults, and the effect calls loadTenant.
Mount ==
    /\ NoPageMounted
    /\ \E id \in PageTenantIds :
           page' = [NoPage EXCEPT !.mounted = TRUE, !.id = id, !.pc = "loading"]
    /\ UNCHANGED <<components, moduleRegistry, userPermissions, call, result,
                   mockTenants,
                   mockTenantModules, otherPages>>

\* faulty variant: loadTenant clears isLoading at the end of its try block
\* instead of in a finally clause, so that a fetch that throws leaves it set.
LoadTenantReturnsNoFinally ==
    /\ page.pc \in {"loading", "reloading"}
    /\ page' =
           LET found == findIndex(mockTenants, page.id) # -1
               stored == page.id \in DOMAIN mockTenantModules
           IN  IF found
                   THEN [page EXCEPT
                            !.tenant = page.id,
                            !.modules = IF stored THEN "store" ELSE "own",
                            !.moduleStates =
                                ModuleStatesOf(
                                    TenantModulesOf(mockTenantModules, page.id)),
                            !.isLoading = FALSE, !.isSaving = FALSE,
                            !.pc = "idle"]
                   ELSE [page EXCEPT !.pc = "idle"]
    /\ UNCHANGED <<components, moduleRegistry, userPermissions, call, result,
                   mockTenants,
                   mockTenantModules, otherPages>>

\* getTenantById returns to loadTenant: tenant, modules and moduleStates are
\* set from the result and isLoading falls; a tenant the store does not have
\* makes it throw, and only isLoading falls.  When handleSave awaited the
\* reload, its finally clause follows without another event: isSaving falls.
LoadTenantReturns ==
    /\ page.pc \in {"loading", "reloading"}
    /\ page' =
           LET found == findIndex(mockTenants, page.id) # -1
               stored == page.id \in DOMAIN mockTenantModules
               loaded ==
                   IF found
                       THEN [page EXCEPT
                                !.tenant = page.id,
                                !.modules = IF stored THEN "store" ELSE "own",
                                !.moduleStates =
                                    ModuleStatesOf(
                                        TenantModulesOf(mockTenantModules, page.id))]
                       ELSE page
           IN  [loaded EXCEPT !.isLoading = FALSE, !.isSaving = FALSE,
                              !.pc = "idle"]
    /\ UNCHANGED <<components, moduleRegistry, userPermissions, call, result,
                   mockTenants,
                   mockTenantModules, otherPages>>

\* The switches are on the screen: the page is loaded and has a tenant.
Rendered == page.mounted /\ ~page.isLoading /\ page.tenant # 0

\* handleModuleToggle: the user flips the switch of a registry module.
FlipSwitch ==
    /\ Rendered
    /\ \E j \in 1..Len(moduleRegistry) :
           LET moduleId == moduleRegistry[j].id
               checked == ~currentState(page, moduleId)
           IN  page' = [page EXCEPT
                           !.moduleStates =
                               Spread(page.moduleStates,
                                      [m \in {moduleId} |-> checked]),
                           !.flipped = @ \/ page.pc = "toggling"]
    /\ UNCHANGED <<components, moduleRegistry, userPermissions, call, result,
                   mockTenants,
                   mockTenantModules, otherPages>>

\* handleSave up to its first await: the Save button is enabled when there
\* are changes and no save is running.
PressSave ==
    /\ Rendered
    /\ hasChanges(page)
    /\ ~page.isSaving
    /\ page' = [page EXCEPT
                    !.isSaving = TRUE,
                    !.pc = "toggling",
                    !.pending = handleSaveUpdates(page),
                    !.pressed = [j \in 1..Len(moduleRegistry) |->
                                    currentState(page, moduleRegistry[j].id)],
                    !.flipped = FALSE]
    /\ UNCHANGED <<components, moduleRegistry, userPermissions, call, result,
                   mockTenants,
                   mockTenantModules, otherPages>>

\* The timer of one toggleTenantModule call in flight fires.
ToggleReturns ==
    /\ page.pc = "toggling"
    /\ \E update \in page.pending :
           /\ mockTenantModules' =
                  toggleTenantModule(mockTenantModules, page.id, update.moduleId,
                                     update.enabled).modules
           /\ page' = [page EXCEPT !.pending = @ \ {update}]
    /\ UNCHANGED <<components, moduleRegistry, userPermissions, call, result,
                   mockTenants,
                   otherPages>>

\* Promise.all(updates) is settled: handleSave calls loadTenant, which sets
\* isLoading and awaits getTenantById.
ReloadAfterSave ==
    /\ page.pc = "toggling"
    /\ page.pending = {}
    /\ page' = [page EXCEPT !.isLoading = TRUE, !.pc = "reloading"]
    /\ UNCHANGED <<components, moduleRegistry, userPermissions, call, result,
                   mockTenants,
                   mockTenantModules, otherPages>>

NextModules ==
    \/ Mount
    \/ LoadTenantReturns
    \/ FlipSwitch
    \/ PressSave
    \/ ToggleReturns
    \/ ReloadAfterSave

SpecModules == InitTenants /\ [][NextModules]_vars

(***************************************************************************)
(* The tenant settings page                                                *)
(*   src/src/features/super-admin/tenants/settings/index.tsx               *)
(***************************************************************************)

\* The page is mounted: useState defaults, and the effect calls loadTenant.
MountSettings ==
    /\ NoPageMounted
    /\ \E id \in PageTenantIds :
           settingsPage' = [NoSettingsPage EXCEPT !.mounted = TRUE, !.id = id,
                                                 !.pc = "loading"]
    /\ UNCHANGED <<components, moduleRegistry, userPermissions, call, result,
                   mockTenants,
                   mockTenantModules, page, listPage>>

\* getTenantById returns to loadTenant: tenant is set when the store has the
\* id; when it throws, only the finally clause runs.
SettingsLoadReturns ==
    /\ settingsPage.pc = "loading"
    /\ settingsPage' =
           [settingsPage EXCEPT
               !.tenant = IF findIndex(mockTenants, settingsPage.id) # -1
                              THEN settingsPage.id ELSE @,
               !.isLoading = FALSE,
               !.pc = "idle"]
    /\ UNCHANGED <<components, moduleRegistry, userPermissions, call, result,
                   mockTenants,
                   mockTenantModules, page, listPage>>

\* onSubmit up to its await: the form is on the screen and the button is
\* enabled.
SubmitSettings ==
    /\ settingsPage.mounted
    /\ ~settingsPage.isLoading
    /\ settingsPage.tenant # 0
    /\ ~settingsPage.isSaving
    /\ settingsPage' = [settingsPage EXCEPT !.isSaving = TRUE, !.pc = "saving"]
    /\ UNCHANGED <<components, moduleRegistry, userPermissions, call, result,
                   mockTenants,
                   mockTenantModules, page, listPage>>

\* updateTenant returns to onSubmit, which shows a toast (pc is "saved" after
\* the success toast).  The form has none of the fields the model keeps of a
\* tenant, so the data spread over the record is empty here.
SettingsUpdateReturns ==
    /\ settingsPage.pc = "saving"
    /\ LET r == updateTenant(mockTenants, settingsPage.id, << >>)
       IN  /\ mockTenants' = r.tenants
           /\ settingsPage' =
                  [settingsPage EXCEPT
                      !.tenant = IF r.outcome.value.success
                                     THEN r.outcome.value.data.id ELSE @,
                      !.isSaving = FALSE,
                      !.pc = IF r.outcome.value.success
                                 THEN "saved" ELSE "idle"]
    /\ UNCHANGED <<components, moduleRegistry, userPermissions, call, result,
                   mockTenantModules, page, listPage>>

(***************************************************************************)
(* The tenants list                                                        *)
(*   src/unnamed/part_007                                                  *)
(***************************************************************************)

\* bound: a load is not started when this many getTenants calls are in flight
MaxLoads == 2

\* The values the status filter is set to.
ListFilters == {"all", "active"}

\* The tenants whose row actions are used.
RowTenantIds == {1}

\* mockGetTenants with a status filter: the ids of the tenants it returns.
mockGetTenants(tenants, statusFilter) ==
    LET filtered == SelectSeq(tenants, LAMBDA t :
                        statusFilter = "all" \/ t.status = statusFilter)
    IN  [i \in 1..Len(filtered) |-> filtered[i].id]

\* The getTenants calls in flight or about to be made by a row action.
LoadsAhead ==
    Len(listPage.loads) + (IF listPage.request.op = "none" THEN 0 ELSE 1)

\* The page is mounted: useState defaults, and the effect calls loadTenants.
MountList ==
    /\ NoPageMounted
    /\ listPage' = [NoListPage EXCEPT !.mounted = TRUE, !.loads = <<"all">>]
    /\ UNCHANGED <<components, moduleRegistry, userPermissions, call, result,
                   mockTenants,
                   mockTenantModules, page, settingsPage>>

\* The status filter is changed; the effect calls loadTenants, which sets
\* isLoading and awaits getTenants with the new filter.
ChangeStatusFilter ==
    /\ listPage.mounted
    /\ LoadsAhead < MaxLoads
    /\ \E filter \in ListFilters \ {listPage.statusFilter} :
           listPage' = [listPage EXCEPT !.statusFilter = filter,
                                       !.isLoading = TRUE,
                                       !.loads = Append(@, filter)]
    /\ UNCHANGED <<components, moduleRegistry, userPermissions, call, result,
                   mockTenants,
                   mockTenantModules, page, settingsPage>>

\* getTenants returns to the oldest loadTenants: the list is set and
\* isLoading falls.
ListLoadReturns ==
    /\ listPage.loads # << >>
    /\ listPage' = [listPage EXCEPT
                        !.tenants = mockGetTenants(mockTenants, Head(listPage.loads)),
                        !.isLoading = FALSE,
                        !.loads = Tail(@)]
    /\ UNCHANGED <<components, moduleRegistry, userPermissions, call, result,
                   mockTenants,
                   mockTenantModules, page, settingsPage>>

\* A row action of a tenant on the screen: Suspend when its status is
\* 'active', Activate otherwise, or Delete (confirmed in the dialog).
ClickRowAction ==
    /\ listPage.mounted
    /\ ~listPage.isLoading
    /\ listPage.request.op = "none"
    /\ LoadsAhead < MaxLoads
    /\ \E i \in 1..Len(mockTenants), op \in {"status", "delete"} :
           /\ mockTenants[i].id \in RowTenantIds
           /\ mockTenants[i].id \in Range(listPage.tenants)
           /\ listPage' =
                  [listPage EXCEPT
                      !.request =
                          [op |-> op, id |-> mockTenants[i].id,
                           status |-> IF mockTenants[i].status = "active"
                                          THEN "suspended" ELSE "active",
                           filter |-> listPage.statusFilter]]
    /\ UNCHANGED <<components, moduleRegistry, userPermissions, call, result,
                   mockTenants,
                   mockTenantModules, page, settingsPage>>

\* updateTenantStatus or deleteTenant returns to handleStatusChange or
\* handleDelete: on success loadTenants is called, with the filter of the
\* render the action was clicked in.
RowActionReturns ==
    /\ listPage.request.op # "none"
    /\ LET request == listPage.request
           r == IF request.op = "status"
                    THEN updateTenantStatus(mockTenants, request.id, request.status)
                    ELSE deleteTenant(mockTenants, request.id)
       IN  /\ mockTenants' = r.tenants
           /\ listPage' =
                  IF r.outcome.value.success
                      THEN [listPage EXCEPT !.request = NoRequest,
                                            !.isLoading = TRUE,
                                            !.loads = Append(@, request.filter)]
                      ELSE [listPage EXCEPT !.request = NoRequest]
    /\ UNCHANGED <<components, moduleRegistry, userPermissions, call, result,
                   mockTenantModules, page, settingsPage>>

(***************************************************************************)
(* The three pages, with the timers of the mock API firing                 *)
(***************************************************************************)

NextLoads ==
    \/ NextModules
    \/ MountSettings
    \/ SettingsLoadReturns
    \/ SubmitSettings
    \/ SettingsUpdateReturns
    \/ MountList
    \/ ChangeStatusFilter
    \/ ListLoadReturns
    \/ ClickRowAction
    \/ RowActionReturns

\* Every mock function awaits a setTimeout of 300 to 500 ms, which fires:
\* a call in flight returns.
SpecLoads ==
    /\ InitTenants
    /\ [][NextLoads]_vars
    /\ WF_vars(LoadTenantReturns)
    /\ WF_vars(SettingsLoadReturns)
    /\ WF_vars(ListLoadReturns)

(***************************************************************************)
(* Claims about the tenant store (SpecTenants)                             *)
(***************************************************************************)

\* C15: registerTenant on a subdomain a stored tenant already uses returns
\* {success: false, error: 'Subdomain already exists'}, throws nothing and
\* leaves the tenant store unchanged; otherwise it appends exactly one new
\* tenant with status 'trial' and the requested subdomain and returns it.
C15_RegisterTenant ==
    [][call'.op = "registerTenant" =>
           IF \E i \in 1..Len(mockTenants) :
                  mockTenants[i].subdomain = call'.data.subdomain
               THEN /\ result' = Return([success |-> FALSE,
                                         error |-> "Subdomain already exists"])
                    /\ mockTenants' = mockTenants
               ELSE /\ Len(mockTenants') = Len(mockTenants) + 1
                    /\ SubSeq(mockTenants', 1, Len(mockTenants)) = mockTenants
                    /\ LET newTenant == mockTenants'[Len(mockTenants')]
                       IN  /\ newTenant.status = "trial"
                           /\ newTenant.subdomain = call'.data.subdomain
                           /\ \A i \in 1..Len(mockTenants) :
                                  mockTenants[i].id # newTenant.id
                           /\ result' = Return([success |-> TRUE,
                                                data |-> newTenant])]_vars

\* C15 witness: the free subdomain has been registered a first time, and a
\* second registration of it has been turned down.
C15_Witness ==
    /\ call.op = "registerTenant"
    /\ call.data.subdomain = "new"
    /\ result = Return([success |-> FALSE, error |-> "Subdomain already exists"])
    /\ Len(mockTenants) = 6
    /\ mockTenants[6].subdomain = "new"

\* C16: a tenant's subdomain cannot be changed after creation: no call of
\* updateTenant, updateTenantStatus, updateTenantPlan or deleteTenant leaves
\* a stored tenant with another subdomain than it had.
C16_SubdomainImmutable ==
    [][\A i \in 1..Len(mockTenants) :
           /\ i <= Len(mockTenants')
           /\ mockTenants'[i].subdomain = mockTenants[i].subdomain]_vars

\* C17: deleteTenant is a soft delete: for an existing id the record stays
\* in the store (the number of stored tenants never decreases), its
\* deletedAt becomes non-null and its status 'inactive', and no other tenant
\* changes; for an unknown id it returns {success: false, error: 'Tenant not
\* found'} and leaves the store unchanged.
C17_SoftDelete ==
    [][/\ Len(mockTenants') >= Len(mockTenants)
       /\ call'.op = "deleteTenant" =>
              IF \E i \in 1..Len(mockTenants) : mockTenants[i].id = call'.tenantId
                  THEN /\ result' = Return([success |-> TRUE])
                       /\ Len(mockTenants') = Len(mockTenants)
                       /\ \A i \in 1..Len(mockTenants) :
                              IF mockTenants[i].id = call'.tenantId
                                  THEN /\ mockTenants'[i].deletedAt # null
                                       /\ mockTenants'[i].status = "inactive"
                                       /\ mockTenants'[i].id = mockTenants[i].id
                                  ELSE mockTenants'[i] = mockTenants[i]
                  ELSE /\ result' = Return([success |-> FALSE,
                                            error |-> "Tenant not found"])
                       /\ mockTenants' = mockTenants]_vars

\* C17 witness: a registered tenant has been deleted and is still stored,
\* next to the five tenants of the mock data.
C17_Witness ==
    /\ call.op = "deleteTenant"
    /\ call.tenantId = 6
    /\ result = Return([success |-> TRUE])
    /\ Len(mockTenants) = 6
    /\ mockTenants[6].deletedAt = Date
    /\ mockTenants[6].status = "inactive"
    /\ SubSeq(mockTenants, 1, 5) = MockTenants

\* Tenant i of the store is deleted.
Deleted(tenants, i) ==
    /\ tenants[i].deletedAt # null
    /\ tenants[i].status = "inactive"

\* C18: deleting a tenant cannot be undone: once deleteTenant has succeeded
\* for a tenant, the tenant has deletedAt set and status 'inactive' in every
\* later state, whatever list-page actions or API calls follow.
C18_DeleteIsFinal ==
    [][\A i \in 1..Len(mockTenants) :
           Deleted(mockTenants, i) =>
               (i <= Len(mockTenants') /\ Deleted(mockTenants', i))]_vars

\* C13: enabling or disabling a module for a tenant never edits the module
\* registry: across every tenant operation each registry module keeps its
\* enabled flag and getModulesByRibbon and getMenuItemsForRibbon return what
\* they returned before; a toggle changes the per-tenant module records only.
C13_RegistryUntouched ==
    [][/\ Len(moduleRegistry') = Len(moduleRegistry)
       /\ \A j \in 1..Len(moduleRegistry) :
              moduleRegistry'[j].enabled = moduleRegistry[j].enabled
       /\ \A r \in RibbonType, e \in BOOLEAN :
              /\ getModulesByRibbon(r, e)' = getModulesByRibbon(r, e)
              /\ getMenuItemsForRibbon(r, e)' = getMenuItemsForRibbon(r, e)
       /\ call'.op = "toggleTenantModule" =>
              /\ moduleRegistry' = moduleRegistry
              /\ mockTenants' = mockTenants]_vars

\* C13 witness: academic has been disabled for a tenant; the registry module
\* is enabled and on the main ribbon as before.
C13_Witness ==
    /\ call.op = "toggleTenantModule"
    /\ call.moduleId = "academic"
    /\ ~call.enabled
    /\ ~mockTenantModules[call.tenantId][1].enabled
    /\ moduleRegistry[1].id = "academic"
    /\ moduleRegistry[1].enabled
    /\ getModulesByRibbon("main", TRUE).value = <<moduleRegistry[1]>>
    /\ \E i \in 1..Len(mockTenants) : Deleted(mockTenants, i)

(***************************************************************************)
(* Claims about toggleTenantModule (SpecToggle)                            *)
(***************************************************************************)

\* C19: toggleTenantModule(tenantId, moduleId, enabled) returns an error, and
\* creates or changes no module record, when the tenant is not in the tenant
\* store or the module id is not a module of the registry.
C19_ToggleRejectsUnknown ==
    [][( /\ call'.op = "toggleTenantModule"
         /\ \/ findIndex(mockTenants, call'.tenantId) = -1
            \/ getModuleById(call'.moduleId) = Return(undefined) ) =>
           /\ ~result'.value.success
           /\ mockTenantModules' = mockTenantModules]_vars

(***************************************************************************)
(* Claims about the module-management page (SpecModules)                   *)
(***************************************************************************)

\* The stored enabled state of a module for a tenant: that of its record,
\* false when it has none.
StoredEnabled(tenantId, moduleId) ==
    existingState(TenantModulesOf(mockTenantModules, tenantId), moduleId)

\* The save is done: every registry module is stored as its switch stood
\* when Save was pressed, every switch shows the stored state, hasChanges is
\* false and isSaving is false.
SaveDone ==
    /\ \A j \in 1..Len(moduleRegistry) :
           LET moduleId == moduleRegistry[j].id
           IN  /\ StoredEnabled(page.id, moduleId) = page.pressed[j]
               /\ currentState(page, moduleId) = StoredEnabled(page.id, moduleId)
    /\ ~hasChanges(page)
    /\ ~page.isSaving

\* C20: pressing Save issues toggleTenantModule for exactly the registry
\* modules whose switch differs from the loaded state; when the toggles and
\* the reload have completed, the stored state of every registry module is
\* the switch state at the moment Save was pressed, the switches show the
\* stored states, hasChanges is false and isSaving is false, also when
\* switches were flipped while the save was in flight.
C20_SaveStoresPressedStates ==
    [][/\ (page.pc = "idle" /\ page'.pc = "toggling") =>
              page'.pending =
                  {[moduleId |-> moduleRegistry[j].id,
                    enabled |-> currentState(page, moduleRegistry[j].id)] :
                      j \in {k \in 1..Len(moduleRegistry) :
                                currentState(page, moduleRegistry[k].id)
                                    # StoredEnabled(page.id, moduleRegistry[k].id)}}
       /\ (page.pc = "reloading" /\ page'.pc = "idle") => SaveDone']_vars

\* C20 witness: for the tenant without module records a save has completed
\* during which a switch was flipped; academic is stored enabled, as pressed.
C20_Witness ==
    /\ page.pc = "idle"
    /\ page.id = 4
    /\ page.flipped
    /\ page.pressed = <<TRUE, FALSE>>
    /\ StoredEnabled(4, "academic")
    /\ SaveDone

(***************************************************************************)
(* Claims about the page loads (SpecLoads)                                 *)
(***************************************************************************)

\* A page is mounted and in its loading state.
ModulesLoading == page.mounted /\ page.isLoading
SettingsLoading == settingsPage.mounted /\ settingsPage.isLoading
ListLoading == listPage.mounted /\ listPage.isLoading

\* A page has finished loading a tenant the store does not have.
ModulesLoadFailed ==
    /\ page.mounted
    /\ ~page.isLoading
    /\ findIndex(mockTenants, page.id) = -1
SettingsLoadFailed ==
    /\ settingsPage.mounted
    /\ ~settingsPage.isLoading
    /\ findIndex(mockTenants, settingsPage.id) = -1

MaxSteps == 3

\* bound: Next is not clicked once onSubmit was called this many times
MaxSubmits == 2

\* The steps props the form is mounted with.
FormSteps ==
    UNION {[1..n -> [validate : BOOLEAN]] : n \in 1..MaxSteps}

isFirstStep(f) == f.currentStep = 0
isLastStep(f) == f.currentStep = Len(f.steps) - 1

\* validateStep, when the step's validate function (if it has one) returns
\* valid: the result and the form after setErrors.
validateStep(f, valid) ==
    LET i == f.currentStep
        step == f.steps[i + 1]
    IN  IF step.validate
            THEN [isValid |-> valid,
                  form |->
                      [f EXCEPT
                          !.errors = [j \in DOMAIN f.errors \cup {i} |->
                                         IF j = i THEN ~valid ELSE f.errors[j]],
                          !.event.validateCalls = @ + 1,
                          !.event.isValid = valid,
                          !.passed = IF valid THEN @ \cup {i} ELSE @]]
            ELSE [isValid |-> TRUE,
                  form |-> [f EXCEPT !.event.isValid = TRUE,
                                     !.passed = @ \cup {i}]]

\* handleSubmit
handleSubmit(f, valid) ==
    LET v == validateStep(f, valid)
    IN  IF v.isValid
            THEN [v.form EXCEPT !.onSubmit = @ + 1]
            ELSE v.form

\* handleNext; valid1 and valid2 are what the step's validate function returns
\* to handleNext and to handleSubmit.
handleNext(f, valid1, valid2) ==
    LET v == validateStep(f, valid1)
    IN  IF v.isValid
            THEN IF isLastStep(f)
                     THEN handleSubmit(v.form, valid2)
                     ELSE [v.form EXCEPT !.currentStep = @ + 1]
            ELSE v.form

\* handlePrevious
handlePrevious(f) ==
    IF ~isFirstStep(f)
        THEN [f EXCEPT !.currentStep = @ - 1]
        ELSE f

\* handleStepClick
handleStepClick(f, index, valid) ==
    IF index <= f.currentStep
        THEN [f EXCEPT !.currentStep = index]
        ELSE LET v == validateStep(f, valid)
             IN  IF v.isValid
                     THEN [v.form EXCEPT !.currentStep = index]
                     ELSE v.form

\* faulty variant: every step indicator is clickable.
isClickableAlways(f, index) == TRUE

\* isClickable of a step indicator
isClickable(f, index) == index <= f.currentStep

\* The handler op starts: no validate call made yet.
Handling(f, op) ==
    [f EXCEPT !.event = [op |-> op, validateCalls |-> 0, isValid |-> FALSE]]

\* The form is mounted with a steps prop: useState defaults.
MountForm ==
    /\ ~multiStepForm.mounted
    /\ \E steps \in FormSteps :
           multiStepForm' = [NoForm EXCEPT !.mounted = TRUE, !.steps = steps]
    /\ UNCHANGED <<moduleRegistry, userPermissions, call, result, tenantVars,
                   kanbanBoard, ribbonNavigation>>

\* The Next button (labelled submitText on the last step) is clicked.
ClickNext ==
    /\ multiStepForm.mounted
    /\ multiStepForm.onSubmit < MaxSubmits
    /\ \E valid1, valid2 \in BOOLEAN :
           multiStepForm' =
               handleNext(Handling(multiStepForm, "next"), valid1, valid2)
    /\ UNCHANGED <<moduleRegistry, userPermissions, call, result, tenantVars,
                   kanbanBoard, ribbonNavigation>>

\* The Previous button, rendered except on the first step, is clicked.
ClickPrevious ==
    /\ multiStepForm.mounted
    /\ ~isFirstStep(multiStepForm)
    /\ multiStepForm' = handlePrevious(Handling(multiStepForm, "previous"))
    /\ UNCHANGED <<moduleRegistry, userPermissions, call, result, tenantVars,
                   kanbanBoard, ribbonNavigation>>

\* A step indicator is clicked: onClick calls handleStepClick when the
\* indicator is clickable.
ClickStep ==
    /\ multiStepForm.mounted
    /\ \E index \in 0..(Len(multiStepForm.steps) - 1), valid \in BOOLEAN :
           multiStepForm' =
               IF isClickable(multiStepForm, index)
                   THEN handleStepClick(Handling(multiStepForm, "step"),
                                        index, valid)
                   ELSE multiStepForm
    /\ UNCHANGED <<moduleRegistry, userPermissions, call, result, tenantVars,
                   kanbanBoard, ribbonNavigation>>

NextForm == MountForm \/ ClickNext \/ ClickPrevious \/ ClickStep

SpecForm == InitTenants /\ [][NextForm]_vars

\* Every step before the current one was validated while it was current.
EarlierStepsPassed ==
    \A i \in 0..(multiStepForm.currentStep - 1) : i \in multiStepForm.passed

\* A step back (Previous, or a click on an earlier step) calls no validate
\* function.
BackWithoutValidation ==
    multiStepForm'.currentStep < multiStepForm.currentStep
        => multiStepForm'.event.validateCalls = 0

\* A step forward is Next on a step whose validation passed, to the step
\* after it.
ForwardAfterValidation ==
    multiStepForm'.currentStep > multiStepForm.currentStep
        => /\ multiStepForm'.currentStep = multiStepForm.currentStep + 1
           /\ multiStepForm'.event.op = "next"
           /\ multiStepForm'.event.isValid
           /\ multiStepForm.currentStep \in multiStepForm'.passed

\* onSubmit is called on the last step, which stays current, after its
\* validation passed.
SubmitOnValidLastStep ==
    multiStepForm'.onSubmit # multiStepForm.onSubmit
        => /\ isLastStep(multiStepForm)
           /\ multiStepForm'.currentStep = multiStepForm.currentStep
           /\ multiStepForm'.event.isValid
           /\ multiStepForm'.onSubmit = multiStepForm.onSubmit + 1

\* C22: step validation gates progress in MultiStepForm: whatever Next,
\* Previous and step-indicator clicks are made, every step before the current
\* one had validateStep return true while it was current (a step without a
\* validate function counts as valid); going back calls no validate function;
\* and onSubmit is called only on the last step after its validation passed.
C22_ValidationGates ==
    /\ [](multiStepForm.mounted => EarlierStepsPassed)
    /\ [][/\ ForwardAfterValidation
          /\ BackWithoutValidation
          /\ SubmitOnValidLastStep]_vars

\* A form of three steps whose second step has a validate function, which
\* was called, reached its last step and was submitted.
C22_Witness ==
    /\ multiStepForm.mounted
    /\ Len(multiStepForm.steps) = 3
    /\ multiStepForm.steps[2].validate
    /\ multiStepForm.onSubmit > 0
    /\ multiStepForm.currentStep = 2
    /\ 1 \in DOMAIN multiStepForm.errors

(***************************************************************************)
(* KanbanBoard                                                             *)
(*   src/unnamed/part_012                                                  *)
(***************************************************************************)

\* bound: initialCards has at most this many cards
MaxCards == 2

\* bound: no card is picked up once onCardMove was called this many times
MaxMoves == 2

\* The ids of the cards; the cards of a board have different ids (they are the
\* React keys of the cards).
CardIds == {"", "1", "2"}

\* The statuses of the cards and of the columns.
CardStatuses == {"pending", "completed"}
ColumnStatuses == {"pending", "in-progress", "completed"}

\* The cards: id, status and one of the fields a drop has nothing to do with.
KanbanCard == [id : CardIds, status : CardStatuses, priority : {"low", "high"}]

\* The initialCards props the board is mounted with.
InitialCards ==
    {cards \in UNION {[1..n -> KanbanCard] : n \in 0..MaxCards} :
        \A i, j \in DOMAIN cards : cards[i].id = cards[j].id => i = j}

\* !draggedCard
Falsy(draggedCard) == draggedCard = null \/ draggedCard = ""

\* handleDragStart
handleDragStart(b, cardId) == [b EXCEPT !.draggedCard = cardId]

\* handleDrop
handleDrop(b, targetStatus) ==
    IF Falsy(b.draggedCard)
        THEN b
        ELSE [b EXCEPT
                 !.cards = [i \in DOMAIN b.cards |->
                               IF b.cards[i].id = b.draggedCard
                                   THEN [b.cards[i] EXCEPT !.status = targetStatus]
                                   ELSE b.cards[i]],
                 !.moves = IF b.onCardMove
                               THEN Append(@, <<b.draggedCard, targetStatus>>)
                               ELSE @,
                 !.draggedCard = null]

\* handleDragEnd
handleDragEnd(b) == [b EXCEPT !.draggedCard = null]

\* The board is mounted: useState(initialCards), useState(null).
MountBoard ==
    /\ ~kanbanBoard.mounted
    /\ \E cards \in InitialCards, onCardMove \in BOOLEAN :
           kanbanBoard' = [NoBoard EXCEPT !.mounted = TRUE, !.cards = cards,
                                          !.onCardMove = onCardMove]
    /\ UNCHANGED <<moduleRegistry, userPermissions, call, result, tenantVars,
                   multiStepForm, ribbonNavigation>>

\* The user picks up a card: onDragStart.
DragStart ==
    /\ kanbanBoard.mounted
    /\ kanbanBoard.phase = "none"
    /\ Len(kanbanBoard.moves) < MaxMoves
    /\ \E i \in DOMAIN kanbanBoard.cards :
           kanbanBoard' =
               [handleDragStart(kanbanBoard, kanbanBoard.cards[i].id)
                   EXCEPT !.phase = "dragging", !.dragging = i]
    /\ UNCHANGED <<moduleRegistry, userPermissions, call, result, tenantVars,
                   multiStepForm, ribbonNavigation>>

\* Something is dropped on a column (onDrop): the card picked up, or
\* something dragged from outside the board.
Drop ==
    /\ kanbanBoard.mounted
    /\ kanbanBoard.phase \in {"none", "dragging"}
    /\ \E targetStatus \in ColumnStatuses :
           kanbanBoard' =
               [handleDrop(kanbanBoard, targetStatus)
                   EXCEPT !.phase = IF @ = "dragging" THEN "dropped" ELSE @,
                          !.dropTarget = targetStatus]
    /\ UNCHANGED <<moduleRegistry, userPermissions, call, result, tenantVars,
                   multiStepForm, ribbonNavigation>>

\* The drag of a card ends, after a drop or without one: onDragEnd.
DragEnd ==
    /\ kanbanBoard.mounted
    /\ kanbanBoard.phase \in {"dragging", "dropped"}
    /\ kanbanBoard' = [handleDragEnd(kanbanBoard)
                          EXCEPT !.phase = "none", !.dragging = 0]
    /\ UNCHANGED <<moduleRegistry, userPermissions, call, result, tenantVars,
                   multiStepForm, ribbonNavigation>>

NextBoard == MountBoard \/ DragStart \/ Drop \/ DragEnd

SpecBoard == InitTenants /\ [][NextBoard]_vars

\* A step in which the card being dragged is dropped on a column.
DropOfDraggedCard ==
    kanbanBoard.phase = "dragging" /\ kanbanBoard'.phase = "dropped"

\* C23: in KanbanBoard, a drop on a column while a card is being dragged sets
\* that card's status to the column's status and nothing else in cards (same
\* cards, same other fields, same number), calls onCardMove (when given) once
\* with the card's id and the status, and clears draggedCard; every other step
\* of the mounted board (a drop with no dragged card, a drag start, a drag
\* end) leaves cards as they are.
C23_DropMovesDraggedCard ==
    [][kanbanBoard.mounted =>
          IF DropOfDraggedCard
              THEN LET i == kanbanBoard.dragging
                       targetStatus == kanbanBoard'.dropTarget
                   IN  /\ kanbanBoard'.cards =
                              [kanbanBoard.cards EXCEPT ![i].status = targetStatus]
                       /\ Len(kanbanBoard'.cards) = Len(kanbanBoard.cards)
                       /\ kanbanBoard'.moves =
                              IF kanbanBoard.onCardMove
                                  THEN Append(kanbanBoard.moves,
                                              <<kanbanBoard.cards[i].id, targetStatus>>)
                                  ELSE kanbanBoard.moves
                       /\ kanbanBoard'.draggedCard = null
              ELSE kanbanBoard'.cards = kanbanBoard.cards]_vars

(***************************************************************************)
(* RibbonNavigation: the active tab                                        *)
(*   src/src/components/navigation/ribbon-navigation.tsx                   *)
(***************************************************************************)

\* bound: a pathname has at most this many segments
MaxSegments == 2

\* The pathnames of the routes: "/" followed by the segments joined by "/",
\* with or without a slash at the end.
Pathnames ==
    [segments : UNION {[1..n -> {"setup", "operations", "reports", "academic"}] :
                          n \in 0..MaxSegments},
     slash : BOOLEAN]

\* The enabledRibbons props: the default and a shorter list.
EnabledRibbons == {RibbonType, {"main", "setup"}}

\* pathname.includes('/' + name + '/')
includes(pathname, name) ==
    \E i \in DOMAIN pathname.segments :
        /\ pathname.segments[i] = name
        /\ i < Len(pathname.segments) \/ pathname.slash

\* determineActiveRibbon
determineActiveRibbon(pathname) ==
    IF includes(pathname, "setup") THEN "setup"
    ELSE IF includes(pathname, "operations") THEN "operations"
    ELSE IF includes(pathname, "reports") THEN "reports"
    ELSE "main"

\* faulty variant: the Tabs are given the activeTab state as their value.
currentActiveRibbonFromTab(n) == n.activeTab

\* currentActiveRibbon, the value of the Tabs
currentActiveRibbon(n) ==
    IF n.activeRibbon # NotProvided
        THEN n.activeRibbon
        ELSE determineActiveRibbon(n.pathname)

\* The ribbon whose TabsContent is on the screen: the one whose value is the
\* value of the Tabs, when enabledRibbons has it ("none" when it has not).
displayedRibbon(n) ==
    IF currentActiveRibbon(n) \in n.enabledRibbons
        THEN currentActiveRibbon(n)
        ELSE "none"

\* The component is mounted: useState(activeRibbon || 'main').
MountRibbonNavigation ==
    /\ ~ribbonNavigation.mounted
    /\ \E activeRibbon \in RibbonType \cup {NotProvided},
          enabled \in EnabledRibbons, pathname \in Pathnames :
           ribbonNavigation' =
               [mounted |-> TRUE, activeRibbon |-> activeRibbon,
                enabledRibbons |-> enabled, pathname |-> pathname,
                activeTab |-> IF activeRibbon # NotProvided
                                  THEN activeRibbon ELSE "main"]
    /\ UNCHANGED <<moduleRegistry, userPermissions, call, result, tenantVars,
                   multiStepForm, kanbanBoard>>

\* The route changes: useLocation gives another pathname.
Navigate ==
    /\ ribbonNavigation.mounted
    /\ \E pathname \in Pathnames :
           ribbonNavigation' = [ribbonNavigation EXCEPT !.pathname = pathname]
    /\ UNCHANGED <<moduleRegistry, userPermissions, call, result, tenantVars,
                   multiStepForm, kanbanBoard>>

\* A tab other than the active one is selected: onValueChange calls
\* setActiveTab.
SelectTab ==
    /\ ribbonNavigation.mounted
    /\ \E value \in ribbonNavigation.enabledRibbons :
           /\ value # currentActiveRibbon(ribbonNavigation)
           /\ ribbonNavigation' = [ribbonNavigation EXCEPT !.activeTab = value]
    /\ UNCHANGED <<moduleRegistry, userPermissions, call, result, tenantVars,
                   multiStepForm, kanbanBoard>>

NextRibbonNavigation == MountRibbonNavigation \/ Navigate \/ SelectTab

SpecRibbonNavigation == InitTenants /\ [][NextRibbonNavigation]_vars

\* The ribbon detected from the route.
DetectedFromRoute ==
    LET Contains(name) ==
            \E i \in 1..Len(ribbonNavigation.pathname.segments) :
                /\ ribbonNavigation.pathname.segments[i] = name
                /\ \/ i # Len(ribbonNavigation.pathname.segments)
                   \/ ribbonNavigation.pathname.slash
    IN  CASE Contains("setup") -> "setup"
          [] ~Contains("setup") /\ Contains("operations") -> "operations"
          [] ~Contains("setup") /\ ~Contains("operations") /\ Contains("reports")
                -> "reports"
          [] OTHER -> "main"

\* C24: the ribbon whose content RibbonNavigation displays is the activeRibbon
\* prop when it is given, and the ribbon detected from the route otherwise
\* (setup, then operations, then reports, else main); selecting a tab, which
\* changes neither the prop nor the route, never changes the displayed ribbon.
C24_DisplayedRibbon ==
    /\ [](ribbonNavigation.mounted /\ displayedRibbon(ribbonNavigation) # "none"
            => displayedRibbon(ribbonNavigation) =
                   IF ribbonNavigation.activeRibbon # NotProvided
                       THEN ribbonNavigation.activeRibbon
                       ELSE DetectedFromRoute)
    /\ [][ribbonNavigation'.activeTab # ribbonNavigation.activeTab
            /\ ribbonNavigation.mounted
            => displayedRibbon(ribbonNavigation') = displayedRibbon(ribbonNavigation)]_vars

\* On an operations route, without the prop, the Setup tab was selected and
\* the operations ribbon is displayed.
C24_Witness ==
    /\ ribbonNavigation.mounted
    /\ ribbonNavigation.activeRibbon = NotProvided
    /\ ribbonNavigation.pathname =
           [segments |-> <<"operations", "academic">>, slash |-> FALSE]
    /\ ribbonNavigation.activeTab = "setup"
    /\ displayedRibbon(ribbonNavigation) = "operations"

(***************************************************************************)
(* The navigation core as a whole: every operation, over every input       *)
(***************************************************************************)

InitCore ==
    /\ moduleRegistry = CoreRegistry
    /\ userPermissions \in FilterMaps
    /\ call = NoCall
    /\ result = NoResult
    /\ InitTenantStore

NextCore ==
    \/ CallCheckPermission
    \/ CallCheckAnyPermission
    \/ CallCheckAllPermissions
    \/ CallCanAccessModule
    \/ CallUseCanAccess
    \/ CallFilterMenuItemsByPermission
    \/ CallGetModulesByRibbon
    \/ CallGetModuleById
    \/ CallGetMenuItemsForRibbon
    \/ RenderRibbonNavigation
    \/ Finish

SpecCore == InitCore /\ [][NextCore]_vars

\* The outcome of making the recorded call in the current state.
Outcome(c) ==
    CASE c.op = "checkPermission" ->
             checkPermission(userPermissions, c.moduleId, c.permission)
      [] c.op = "checkAnyPermission" ->
             checkAnyPermission(userPermissions, c.moduleId, c.permissions)
      [] c.op = "checkAllPermissions" ->
             checkAllPermissions(userPermissions, c.moduleId, c.permissions)
      [] c.op = "canAccessModule" -> canAccessModule(userPermissions, c.moduleId)
      [] c.op = "useCanAccess" -> useCanAccess(c.moduleId)
      [] c.op = "filterMenuItemsByPermission" ->
             filterMenuItemsByPermission(c.items, userPermissions, c.moduleId)
      [] c.op = "getModulesByRibbon" -> getModulesByRibbon(c.ribbon, c.enabledOnly)
      [] c.op = "getModuleById" -> getModuleById(c.moduleId)
      [] c.op = "getMenuItemsForRibbon" ->
             getMenuItemsForRibbon(c.ribbon, c.enabledOnly)
      [] c.op = "RibbonNavigation" -> RibbonNavigation
      [] OTHER -> NoResult

Init == InitChecker \/ InitFilter \/ InitRegistry \/ InitCore \/ InitTenants

Next ==
    \/ NextCore
    \/ NextTenants
    \/ NextToggle
    \/ NextLoads
    \/ NextForm
    \/ NextBoard
    \/ NextRibbonNavigation

Spec == Init /\ [][Next]_vars

====
